---- MODULE Spec2Model ----
(***************************************************************************)
(* Model of the per-user quiz session state machine of main.py: the        *)
(* question lifecycle (start_quiz, send_question, handle_answer,           *)
(* handle_skip_callback, question_timeout_by_handle, advance_question,     *)
(* finish_quiz), the user send queue with its worker, and the cleanup      *)
(* sweep.                                                                  *)
(*                                                                         *)
(* Scheduling.  The program runs on one asyncio event loop.  A coroutine   *)
(* runs without interruption between two awaits that really suspend: an    *)
(* action of the model is one such run of one task.                        *)
(* Update handlers are registered on an Application built without          *)
(* concurrent_updates (main), so the Application awaits one handler to     *)
(* its end before it takes the next update: task Disp.  Timer callbacks    *)
(* (loop.call_at) create their own tasks, one per token; the send worker   *)
(* and the cleanup sweep are tasks of their own.                           *)
(*                                                                         *)
(* Session dicts are objects: `heap` holds them by identity (sid) and      *)
(* `sessions` maps a user to the sid currently stored under that key, so   *)
(* a task that kept a reference `s` across an await can still touch a      *)
(* dict that has meanwhile been replaced.  A dict that neither `sessions`   *)
(* nor any task refers to is freed (Collect).                              *)
(*                                                                         *)
(* Time.  The state is written in the frame of the present: `now` is 0 and *)
(* a timestamp field holds its signed distance from now (negative: in the  *)
(* past, positive: in the future).  An assignment `x = time.time()` is     *)
(* x' = now, a test `now - x > K` reads as in the source, and the passing  *)
(* of one time unit (Tick) moves every timestamp one unit into the past.   *)
(* A timestamp stops moving once it is older than every constant it is     *)
(* compared with.                                                          *)
(***************************************************************************)
EXTENDS Integers, Sequences, FiniteSets, TLC

\* ---------------------------------------------------------------- bounds
MaxSid  == 2        \* session dicts ever created (start_quiz calls)
MaxTok  == 3        \* timeout tokens in use at the same time

\* ------------------------------------------------- configuration values
\* one time unit of the model is TRANSITION_DELAY
GRACE_SECONDS == 1
TRANSITION_DELAY == 1
SESSION_TTL == 1
RATE_LIMIT_LATE_MSG_SECONDS == 1
LATE_NOTICE_WINDOW == 2     \* the literal 2.0 of handle_answer
MAX_USER_QUEUE_SIZE == 1
RatioDen == 4       \* negative ratios are multiples of 1/RatioDen; marks are kept in 1/RatioDen units

Users == {1}
Sids  == 1..MaxSid
Toks  == 1..MaxTok

Disp   == 0         \* the Application's update-processing task
Worker == -1        \* _send_worker_loop
NoTid  == -2
Tids   == {Disp} \cup Toks      \* a timer task is named by the token it carries

NoOpt == -1         \* parse_correct_option(...) is None / no option selected
NoTime == 100       \* q_deadline is None

now == 0            \* loop.time(), time.time(): the origin of the time frame
LongAgo == 0 - (RATE_LIMIT_LATE_MSG_SECONDS + 1)    \* the timestamp 0.0

Max(a, b) == IF a >= b THEN a ELSE b

\* A normalized sheet row: inv is _invalid_reason, correct is
\* parse_correct_option(correct_option), opts[i] is "option i is non-blank".
Q(inv, correct, opts, tl, marks, neg) ==
  [inv |-> inv, correct |-> correct, opts |-> opts, tl |-> tl, marks |-> marks, neg |-> neg]

\* The cached question list of the current date key.
Questions ==
  << Q(FALSE, 1, <<TRUE, TRUE, TRUE, TRUE>>, 1, 2, 1),
     Q(TRUE, NoOpt, <<TRUE, TRUE, FALSE, FALSE>>, 1, 2, 1),
     Q(FALSE, 0, <<TRUE, TRUE, FALSE, FALSE>>, 1, 3, 4) >>

NQ == Len(Questions)

VARIABLES
  sessions,       \* user -> sid of the dict stored in `sessions`, 0 if none
  heap,           \* sid -> session dict
  nsid,           \* session dicts created so far
  locks,          \* sid -> s["lock"]: holder and FIFO waiters
  timers,         \* pending loop.call_at handles
  th,             \* task -> the await it is suspended at, and its locals
  queue,          \* _send_queue_user
  worker,         \* _send_worker_loop: the await it is suspended at, its job
  daily_scores,   \* user -> score record
  log,            \* history: per sid, the terminal events counted, in order,
                  \* and the stale callbacks ignored
  current_quiz_date_key,  \* 0: None
  cached_quizzes,         \* the keys of _cached_quizzes
  cached_quiz_lock,       \* _cached_quiz_lock: holder and FIFO waiters
  effective_date,         \* effective_date_for_now(), as a day number
  queue_admin,            \* _send_queue_admin
  metrics,                \* the counters of `metrics` that enqueue_send_poll writes
  call,                   \* the activation(s) of send_with_retries, with their gate
  input,                  \* argument of the function under study
  output                  \* its result

\* the quiz session machine
quiz == <<sessions, heap, nsid, locks, timers, th, queue, worker, daily_scores, log>>

\* the catalog, the send path and the helpers, studied apart from it
side == <<current_quiz_date_key, cached_quizzes, cached_quiz_lock, effective_date,
          queue_admin, metrics, call, input, output>>

vars == <<quiz, side>>

\* ------------------------------------------------------------ data shapes
NoAction == [kind |-> "none", ts |-> 0]

\* The dict of start_quiz.  "questions" is the constant Questions; "name" and
\* "start" only feed the texts of finish_quiz and are left out.  `bare` is
\* history: the fields among transitioned, index and the counters that have
\* been assigned outside `async with s["lock"]`; `replaced` is history too: the
\* dict that was in `sessions` under the user's id when this one was stored.
NewSession(key) ==
  [ index |-> 0, current_q_index |-> 0, score |-> 0, attempted |-> 0, wrong |-> 0,
    marks |-> 0, skipped_user |-> 0, skipped_timeout |-> 0, skipped_invalid |-> 0,
    transitioned |-> FALSE, poll_message_id |-> 0,
    timeout_handle |-> 0, timeout_token |-> 0, q_deadline |-> NoTime,
    explanations |-> <<>>, last_activity |-> now, last_action |-> NoAction,
    in_question |-> FALSE, quiz_date_key |-> key, skip_disabled |-> FALSE,
    last_late_msg_ts |-> LongAgo,
    bare |-> {}, replaced |-> 0 ]

BlankSession == NewSession(0)

FreeLock == [holder |-> NoTid, waiters |-> <<>>]

IdleTh == [pc |-> "idle", uid |-> 0, hs |-> 0, s |-> 0, qi |-> 0, tok |-> 0,
           ts |-> 0, wake |-> 0, inStart |-> FALSE]

IdleWorker == [pc |-> "idle", uid |-> 0, mid |-> 0, s |-> 0]

\* A score record is told apart by the session that wrote it: its figures
\* (marks, time taken, skip counts) are that session's at finish_quiz.
NoScore == [present |-> FALSE, quiz_date_key |-> 0, sid |-> 0]

InSeq(x, seq) == \E i \in 1..Len(seq) : seq[i] = x

\* ------------------------------------------------------------ asyncio.Lock
\* acquire() returns at once only when the lock is unlocked and nobody waits.
LockFree(lk, sid) == lk[sid].holder = NoTid /\ lk[sid].waiters = <<>>

\* acquire() by a task that has to wait
Enqueue(lk, sid, t) == [lk EXCEPT ![sid].waiters = Append(@, t)]

\* t is inside `async with`: the lock was free, or has been handed to t
Hold(lk, sid, t) == [lk EXCEPT ![sid].holder = t]

\* release() wakes the first waiter, which then owns the lock.
Release(lk, sid) ==
  IF lk[sid].waiters = <<>>
    THEN [lk EXCEPT ![sid].holder = NoTid]
    ELSE [lk EXCEPT ![sid].holder = Head(lk[sid].waiters), ![sid].waiters = Tail(@)]

\* t owns the lock of dict sid (and is not queued behind itself).
Holds(t, sid) == sid # 0 /\ locks[sid].holder = t /\ ~InSeq(t, locks[sid].waiters)

\* ------------------------------------------------------- freeing of dicts
\* A task that waits for a lock it holds itself is never scheduled again.
Stuck(t) ==
  /\ th[t].pc = "adv_body"
  /\ th[t].s # 0
  /\ locks[th[t].s].holder = t
  /\ InSeq(t, locks[th[t].s].waiters)

Live == {sessions[u] : u \in Users} \cup {th[t].hs : t \in {x \in Tids : ~Stuck(x)}}
          \cup {th[t].s : t \in {x \in Tids : ~Stuck(x)}} \cup {worker.s}

Garbage == {sid \in Sids : /\ sid \notin Live
                           /\ \/ heap[sid] # BlankSession
                              \/ locks[sid] # FreeLock
                              \/ log[sid] # <<>>}

\* ----------------------------------------------------------- the event loop
\* The only tasks that wait for a lock and get it are a timer task and the
\* worker; once the lock is handed to one of them it is ready to run, and the
\* loop runs what is ready before it polls for I/O or looks at its timers.
Ready ==
  \/ \E t \in Toks : th[t].pc = "tq_body" /\ Holds(t, th[t].hs)
  \/ worker.pc = "w_body" /\ Holds(Worker, worker.s)

\* Nothing is ready: an update, an I/O completion or a due timer is taken next.
\* Every action is one run of a task, from the await that resumes it to the
\* next await that suspends it.
Quiet == ~Ready /\ Garbage = {}

QuizInit ==
  /\ sessions = [u \in Users |-> 0]
  /\ heap = [sid \in Sids |-> BlankSession]
  /\ nsid = 0
  /\ locks = [sid \in Sids |-> FreeLock]
  /\ timers = {}
  /\ th = [t \in Tids |-> IdleTh]
  /\ queue = <<>>
  /\ worker = IdleWorker
  /\ daily_scores = [u \in Users |-> NoScore]
  /\ log = [sid \in Sids |-> <<>>]

\* the quiz of the day is cached under key 1 and nothing else is going on
SideInit ==
  /\ current_quiz_date_key = 1
  /\ cached_quizzes = {1}
  /\ cached_quiz_lock = [holder |-> NoTid, waiters |-> <<>>]
  /\ effective_date = 1
  /\ queue_admin = <<>>
  /\ metrics = [queue_rejections_user |-> 0, queue_rejections_admin |-> 0]
  /\ call = [pc |-> "idle"]
  /\ input = 0
  /\ output = 0

Init == QuizInit /\ SideInit

\* --------------------------------------------------- session-dict updates
Put(H, sid, rec) == [H EXCEPT ![sid] = rec]

Logged(sid, idx, kind) == [log EXCEPT ![sid] = Append(@, [idx |-> idx, kind |-> kind])]

\* an ignored callback is noted once, ahead of the terminal events
Noted(sid, idx, kind) ==
  IF InSeq([idx |-> idx, kind |-> kind], log[sid])
    THEN log
    ELSE [log EXCEPT ![sid] = <<[idx |-> idx, kind |-> kind]>> \o @]

\* h.cancel() for the handle stored in the dict (0: no handle, nothing to cancel)
CancelHandle(tm, h) == {x \in tm : x.tok # h}

CancelTimeoutHandle(s) == [s EXCEPT !.timeout_handle = 0, !.timeout_token = 0]

\* record_explanation: one entry per q_no
RecordExplanation(s, q_no, kind) ==
  IF \E i \in 1..Len(s.explanations) : s.explanations[i].q_no = q_no
    THEN s
    ELSE [s EXCEPT !.explanations = Append(@, [q_no |-> q_no, kind |-> kind])]

\* variant: the late answer is counted as a wrong attempt
LateAnswerAsWrong(s) ==
  LET c == [s EXCEPT !.timeout_handle = 0, !.timeout_token = 0,
                     !.attempted = @ + 1, !.wrong = @ + 1,
                     !.marks = @ - Questions[s.index + 1].marks * Questions[s.index + 1].neg]
      e == RecordExplanation(c, c.index + 1, "late")
  IN  [e EXCEPT !.in_question = FALSE,
                !.last_action = [kind |-> "late_answer_treated_as_timeout", ts |-> now],
                !.transitioned = TRUE,
                !.index = @ + 1]

TreatLateAnswerAsTimeout(s) ==
  LET c == [s EXCEPT !.timeout_handle = 0, !.timeout_token = 0,
                     !.skipped_timeout = @ + 1]
      e == RecordExplanation(c, c.index + 1, "late")
  IN  [e EXCEPT !.in_question = FALSE,
                !.last_action = [kind |-> "late_answer_treated_as_timeout", ts |-> now],
                !.transitioned = TRUE,
                !.index = @ + 1]

\* the answer is late when a deadline is set and now > deadline + GRACE_SECONDS
IsLateAnswer(s) == s.q_deadline # NoTime /\ now > s.q_deadline + GRACE_SECONDS

\* variant: a wrong answer costs the full marks of the question
CountAnswerFullPenalty(s, selected) ==
  LET q == Questions[s.index + 1]
      a == [s EXCEPT !.attempted = @ + 1, !.last_activity = now, !.in_question = FALSE,
                     !.last_action = [kind |-> "answered", ts |-> now]]
      m == IF selected # NoOpt /\ q.correct # NoOpt /\ selected = q.correct
             THEN [a EXCEPT !.score = @ + 1, !.marks = @ + q.marks * RatioDen]
             ELSE [a EXCEPT !.wrong = @ + 1, !.marks = @ - q.marks * RatioDen]
  IN  RecordExplanation(m, s.index + 1, "answer")

\* handle_answer, the counted branch
CountAnswer(s, selected) ==
  LET q == Questions[s.index + 1]
      a == [s EXCEPT !.attempted = @ + 1, !.last_activity = now, !.in_question = FALSE,
                     !.last_action = [kind |-> "answered", ts |-> now]]
      m == IF selected # NoOpt /\ q.correct # NoOpt /\ selected = q.correct
             THEN [a EXCEPT !.score = @ + 1, !.marks = @ + q.marks * RatioDen]
             ELSE [a EXCEPT !.wrong = @ + 1, !.marks = @ - q.marks * q.neg]
  IN  RecordExplanation(m, s.index + 1, "answer")

\* variant: the skip is counted but the question is not closed
SkipQuestionLeftOpen(s) ==
  [s EXCEPT !.explanations = Append(@, [q_no |-> s.index + 1, kind |-> "skip"]),
            !.skipped_user = @ + 1,
            !.in_question = FALSE,
            !.last_action = [kind |-> "skip", ts |-> now],
            !.skip_disabled = TRUE]

\* handle_skip_callback, the honoured branch
SkipQuestion(s) ==
  [s EXCEPT !.explanations = Append(@, [q_no |-> s.index + 1, kind |-> "skip"]),
            !.skipped_user = @ + 1,
            !.transitioned = TRUE,
            !.index = @ + 1,
            !.in_question = FALSE,
            !.last_action = [kind |-> "skip", ts |-> now],
            !.skip_disabled = TRUE]

\* question_timeout_by_handle, the expiry branch up to the call of advance_question
ExpireQuestion(s, q_index) ==
  LET c == [s EXCEPT !.skipped_timeout = @ + 1]
      e == RecordExplanation(c, q_index + 1, "timeout")
  IN  [e EXCEPT !.last_action = [kind |-> "timeout", ts |-> now],
                !.in_question = FALSE,
                !.timeout_token = 0,
                !.timeout_handle = 0]

\* late-notice rate limit: now_ts - last_late_msg_ts > RATE_LIMIT_LATE_MSG_SECONDS
LateNoticeDue(s) == now - s.last_late_msg_ts > RATE_LIMIT_LATE_MSG_SECONDS

\* ------------------------------------------------------------ ends of a run
\* The run of task t ends at an await, with position and locals r.  H, L, T
\* and D are the dicts, the locks, the pending handles and the score records
\* as the run leaves them.
Suspend(t, r, H, L, T, D) ==
  /\ th' = [th EXCEPT ![t] = r]
  /\ heap' = H
  /\ locks' = L
  /\ timers' = T
  /\ daily_scores' = D

\* The outermost coroutine of t returns (or an exception ends it): an
\* `async with s["lock"]` it is still inside is left, the task is over.
Return(t, r, H, L, T, D) ==
  Suspend(t, IdleTh, H, IF r.hs # 0 THEN Release(L, r.hs) ELSE L, T, D)

\* asyncio.sleep(TRANSITION_DELAY), after which send_question is called
Sleep(r) == [r EXCEPT !.pc = "sleep", !.wake = now + TRANSITION_DELAY, !.ts = 0, !.s = 0]

\* -------------------------------------------------------------- finish_quiz
\* a score record is written only when the user has none yet
RecordScore(D, u, sid, s) ==
  IF D[u].present
    THEN D
    ELSE [D EXCEPT ![u] = [present |-> TRUE, quiz_date_key |-> s.quiz_date_key,
                           sid |-> sid]]

\* finish_quiz up to its first send_message
FinishQuiz(t, r, H, L, T, D) ==
  IF sessions[r.uid] = 0
    THEN Return(t, r, H, L, T, D)
    ELSE LET sid == sessions[r.uid] IN
           Suspend(t, [r EXCEPT !.pc = "fin_send", !.s = sid, !.wake = 0], H, L, T,
                   RecordScore(D, r.uid, sid, H[sid]))

\* summary and explanations are out: cancel a lingering timer, drop the session
FinishSent(t) ==
  /\ th[t].pc = "fin_send" /\ Quiet
  /\ sessions' = [sessions EXCEPT ![th[t].uid] = 0]
  /\ Return(t, th[t], heap, locks, CancelHandle(timers, heap[th[t].s].timeout_handle),
            daily_scores)
  /\ UNCHANGED <<nsid, queue, worker, log>>
  /\ UNCHANGED side

\* a send_message of finish_quiz raised: the exception leaves finish_quiz; inside
\* start_quiz it is caught and the session popped, in a timer task it is caught
\* and logged, in a handler it ends the handler
FinishSendFailed(t) ==
  /\ th[t].pc = "fin_send" /\ Quiet
  /\ sessions' = IF th[t].inStart THEN [sessions EXCEPT ![th[t].uid] = 0] ELSE sessions
  /\ Return(t, th[t], heap, locks, timers, daily_scores)
  /\ UNCHANGED <<nsid, queue, worker, log>>
  /\ UNCHANGED side

\* --------------------------------------------------------- advance_question
\* variant: the question is closed but the index stays
AdvanceIndexKept(s) == [s EXCEPT !.transitioned = TRUE, !.in_question = FALSE]

\* the guarded increment
AdvanceIndex(s) == [s EXCEPT !.transitioned = TRUE, !.index = @ + 1, !.in_question = FALSE]

\* advance_question as called by task t: up to the await that suspends it.
\* A lock that is not free suspends the caller in `async with`.
AdvanceQuestion(t, r, H, L, T, D) ==
  IF sessions[r.uid] = 0
    THEN Return(t, r, H, L, T, D)
    ELSE LET sid == sessions[r.uid] IN
           IF ~LockFree(L, sid)
             THEN Suspend(t, [r EXCEPT !.pc = "adv_body", !.s = sid], H,
                          Enqueue(L, sid, t), T, D)
           ELSE IF H[sid].transitioned
             THEN Return(t, r, H, L, T, D)
           ELSE LET H2 == Put(H, sid, AdvanceIndex(H[sid])) IN
                  IF H2[sid].index >= NQ
                    THEN FinishQuiz(t, r, H2, L, T, D)
                    ELSE Suspend(t, Sleep(r), H2, L, T, D)

\* --------------------------------------------------------------- start_quiz
\* button_handler, data "start_quiz": start_quiz up to the "Quiz queued" message
StartQuiz(u) ==
  /\ th[Disp].pc = "idle" /\ Quiet
  /\ nsid < MaxSid
  /\ nsid' = nsid + 1
  /\ sessions' = [sessions EXCEPT ![u] = nsid + 1]
  /\ Suspend(Disp, [IdleTh EXCEPT !.pc = "send_question", !.uid = u, !.inStart = TRUE],
             Put(heap, nsid + 1,
                 [NewSession(current_quiz_date_key) EXCEPT !.replaced = sessions[u]]),
             locks, timers, daily_scores)
  /\ UNCHANGED <<queue, worker, log>>
  /\ UNCHANGED side

\* ------------------------------------------------------------ handle_answer
\* The Application takes the next update: the user has a session.
Entered(u) == th[Disp].pc = "idle" /\ Quiet /\ sessions[u] # 0

InHandler(u) == [IdleTh EXCEPT !.uid = u]

\* handle_answer, first test inside the lock: s.get("transitioned")
AlreadyTransitioned(s) == s.transitioned

\* the session's lock is not free: the handler waits in `async with`
AnswerBlocked(u) ==
  /\ Entered(u)
  /\ ~LockFree(locks, sessions[u])
  /\ Suspend(Disp, [InHandler(u) EXCEPT !.pc = "ha_body", !.hs = sessions[u]], heap,
             Enqueue(locks, sessions[u], Disp), timers, daily_scores)
  /\ UNCHANGED <<sessions, nsid, queue, worker, log>>
  /\ UNCHANGED side

\* already transitioned: a stray late event; the notice is awaited in the lock
AnswerStray(u) ==
  /\ Entered(u)
  /\ LockFree(locks, sessions[u])
  /\ LET sid == sessions[u]
         s == heap[sid]
     IN
       /\ AlreadyTransitioned(s)
       /\ IF /\ s.last_action.kind \in {"skip", "timeout"}
             /\ now - s.last_action.ts < LATE_NOTICE_WINDOW
             /\ LateNoticeDue(s)
            THEN Suspend(Disp, [InHandler(u) EXCEPT !.pc = "ha_stray_notice", !.hs = sid,
                                                    !.ts = now],
                         heap, Hold(locks, sid, Disp), timers, daily_scores)
            ELSE UNCHANGED <<th, heap, locks, timers, daily_scores>>
  /\ UNCHANGED <<sessions, nsid, queue, worker, log>>
  /\ UNCHANGED side

\* variant: the answer that was told it came too late is counted as an attempt
NoteLateNoticeCounted(s, ts) == [s EXCEPT !.last_late_msg_ts = ts, !.attempted = @ + 1]

\* s["last_late_msg_ts"] = now_ts, once the notice has been sent or has failed
NoteLateNotice(s, ts) == [s EXCEPT !.last_late_msg_ts = ts]

AnswerStrayNoticed(t) ==
  /\ th[t].pc = "ha_stray_notice" /\ Quiet
  /\ Return(t, th[t],
            Put(heap, th[t].hs, NoteLateNotice(heap[th[t].hs], th[t].ts)),
            locks, timers, daily_scores)
  /\ UNCHANGED <<sessions, nsid, queue, worker, log>>
  /\ UNCHANGED side

\* now > deadline + grace: recorded as a timeout skip; the notice is awaited in
\* the lock, the sleep and send_question follow outside
AnswerLate(u) ==
  /\ Entered(u)
  /\ LockFree(locks, sessions[u])
  /\ LET sid == sessions[u]
         s == heap[sid]
     IN
       /\ ~AlreadyTransitioned(s)
       /\ IsLateAnswer(s)
       /\ log' = Logged(sid, s.index, "late")
       /\ IF LateNoticeDue(s)
            THEN Suspend(Disp, [InHandler(u) EXCEPT !.pc = "ha_late_notice", !.hs = sid,
                                                    !.ts = now],
                         Put(heap, sid, TreatLateAnswerAsTimeout(CancelTimeoutHandle(s))),
                         Hold(locks, sid, Disp),
                         CancelHandle(timers, s.timeout_handle), daily_scores)
            ELSE Suspend(Disp, Sleep(InHandler(u)),
                         Put(heap, sid, TreatLateAnswerAsTimeout(CancelTimeoutHandle(s))),
                         locks, CancelHandle(timers, s.timeout_handle), daily_scores)
  /\ UNCHANGED <<sessions, nsid, queue, worker>>
  /\ UNCHANGED side

AnswerLateNoticed(t) ==
  /\ th[t].pc = "ha_late_notice" /\ Quiet
  /\ Suspend(t, Sleep([th[t] EXCEPT !.hs = 0]),
             Put(heap, th[t].hs, NoteLateNotice(heap[th[t].hs], th[t].ts)),
             Release(locks, th[t].hs), timers, daily_scores)
  /\ UNCHANGED <<sessions, nsid, queue, worker, log>>
  /\ UNCHANGED side

\* in time: the answer is counted, then advance_question is called; selected
\* is poll_answer.option_ids[0], NoOpt when option_ids is empty
AnswerCounted(u, selected) ==
  /\ Entered(u)
  /\ LockFree(locks, sessions[u])
  /\ LET sid == sessions[u]
         s == heap[sid]
     IN
       /\ ~AlreadyTransitioned(s)
       /\ ~IsLateAnswer(s)
       /\ log' = Logged(sid, s.index, "answer")
       /\ AdvanceQuestion(Disp, InHandler(u),
                          Put(heap, sid, CountAnswer(CancelTimeoutHandle(s), selected)),
                          locks, CancelHandle(timers, s.timeout_handle), daily_scores)
  /\ UNCHANGED <<sessions, nsid, queue, worker>>
  /\ UNCHANGED side

\* ----------------------------------------------------- handle_skip_callback
SkipBlocked(u) ==
  /\ Entered(u)
  /\ ~LockFree(locks, sessions[u])
  /\ Suspend(Disp, [InHandler(u) EXCEPT !.pc = "hs_body", !.hs = sessions[u]], heap,
             Enqueue(locks, sessions[u], Disp), timers, daily_scores)
  /\ UNCHANGED <<sessions, nsid, queue, worker, log>>
  /\ UNCHANGED side

\* transitioned or skip_disabled: query.answer(...) is awaited inside the lock
SkipRejected(u) ==
  /\ Entered(u)
  /\ LockFree(locks, sessions[u])
  /\ LET s == heap[sessions[u]] IN
       IF s.transitioned THEN TRUE ELSE s.skip_disabled
  /\ Suspend(Disp, [InHandler(u) EXCEPT !.pc = "hs_reject", !.hs = sessions[u]], heap,
             Hold(locks, sessions[u], Disp), timers, daily_scores)
  /\ UNCHANGED <<sessions, nsid, queue, worker, log>>
  /\ UNCHANGED side

SkipRejectAnswered(t) ==
  /\ th[t].pc = "hs_reject" /\ Quiet
  /\ Return(t, th[t], heap, locks, timers, daily_scores)
  /\ UNCHANGED <<sessions, nsid, queue, worker, log>>
  /\ UNCHANGED side

\* the skip is counted in the lock; the markup edit and the notice follow outside
SkipHonoured(u) ==
  /\ Entered(u)
  /\ LockFree(locks, sessions[u])
  /\ LET sid == sessions[u]
         s == heap[sid]
     IN
       /\ ~s.transitioned
       /\ ~s.skip_disabled
       /\ log' = Logged(sid, s.index, "skip")
       /\ Suspend(Disp, [InHandler(u) EXCEPT !.pc = "hs_notify", !.qi = s.index],
                  Put(heap, sid, SkipQuestion(CancelTimeoutHandle(s))), locks,
                  CancelHandle(timers, s.timeout_handle), daily_scores)
  /\ UNCHANGED <<sessions, nsid, queue, worker>>
  /\ UNCHANGED side

\* edit_message_reply_markup and the "skipped" notice are done; the sleep starts
SkipNotified(t) ==
  /\ th[t].pc = "hs_notify" /\ Quiet
  /\ Suspend(t, Sleep([th[t] EXCEPT !.qi = 0]), heap, locks, timers, daily_scores)
  /\ UNCHANGED <<sessions, nsid, queue, worker, log>>
  /\ UNCHANGED side

\* ------------------------------------------------------------ send_question
\* send_question is entered from start_quiz once the "Quiz queued" message is
\* out, or after the sleep that follows a resolution, once TRANSITION_DELAY
\* has passed.
AtSendQuestion(t) ==
  /\ IF th[t].pc = "send_question" THEN TRUE
     ELSE IF th[t].pc = "sleep" THEN now >= th[t].wake
     ELSE FALSE
  /\ Quiet

\* the four validity checks of send_question
IsInvalid(q) ==
  IF q.inv THEN TRUE
  ELSE IF q.correct = NoOpt THEN TRUE
  ELSE IF Cardinality({i \in 1..4 : q.opts[i]}) < 2 THEN TRUE
  ELSE ~q.opts[q.correct + 1]

PollId(sid, qi) == sid * (NQ + 1) + qi + 1

\* variant: every question of a user gets the same token
SameToken == CHOOSE k \in Toks : \A j \in Toks : k <= j

\* uuid.uuid4().hex: a token no handle, dict or task carries; the model names
\* it by the least number that is free
TokUsed == {h.tok : h \in timers} \cup {heap[sid].timeout_token : sid \in Sids}
             \cup {heap[sid].timeout_handle : sid \in Sids}
             \cup {t \in Toks : th[t].pc # "idle"}

TokFree == Toks \ TokUsed

NewToken == CHOOSE k \in TokFree : \A j \in TokFree : k <= j

\* lines 769-783: the question counts as presented, its timer is armed
ArmTimer(s, tl, tok) ==
  [s EXCEPT !.in_question = TRUE, !.q_deadline = now + tl, !.timeout_token = tok,
            !.timeout_handle = tok, !.last_action = [kind |-> "sent_poll", ts |-> now]]

\* the call_at handle of a question's timer
Handle(u, qi, tok, at) == [uid |-> u, qi |-> qi, tok |-> tok, at |-> at]

SendNoSession(t) ==
  /\ AtSendQuestion(t)
  /\ sessions[th[t].uid] = 0
  /\ Return(t, th[t], heap, locks, timers, daily_scores)
  /\ UNCHANGED <<sessions, nsid, queue, worker, log>>
  /\ UNCHANGED side

\* no question left: finish_quiz
SendPastEnd(t) ==
  /\ AtSendQuestion(t)
  /\ sessions[th[t].uid] # 0
  /\ LET sid == sessions[th[t].uid] IN
       /\ heap[sid].index >= NQ
       /\ FinishQuiz(t, th[t], Put(heap, sid, [heap[sid] EXCEPT !.last_activity = now]),
                     locks, timers, daily_scores)
  /\ UNCHANGED <<sessions, nsid, queue, worker, log>>
  /\ UNCHANGED side

\* the common head of the remaining branches: lines 645-653
Presenting(s) == [s EXCEPT !.last_activity = now, !.current_q_index = s.index,
                           !.transitioned = FALSE,
                           !.bare = @ \cup {"transitioned"}]

\* an invalid question: the notice to the user is awaited
SendInvalid(t) ==
  /\ AtSendQuestion(t)
  /\ sessions[th[t].uid] # 0
  /\ LET sid == sessions[th[t].uid]
         s == heap[sid]
     IN
       /\ s.index < NQ
       /\ IsInvalid(Questions[s.index + 1])
       /\ Suspend(t, [th[t] EXCEPT !.pc = "sq_invalid", !.s = sid, !.wake = 0],
                  Put(heap, sid, Presenting(s)), locks, timers, daily_scores)
  /\ UNCHANGED <<sessions, nsid, queue, worker, log>>
  /\ UNCHANGED side

\* variant: the auto-skip is counted under skipped_timeout as well
AutoSkipInvalidTwice(s) ==
  [s EXCEPT !.explanations = Append(@, [q_no |-> s.index + 1, kind |-> "invalid"]),
            !.skipped_invalid = @ + 1,
            !.skipped_timeout = @ + 1,
            !.bare = @ \cup {"skipped_invalid"},
            !.last_action = [kind |-> "auto_skip_invalid", ts |-> now]]

\* variant: the auto-skip is not counted
AutoSkipInvalidUncounted(s) ==
  [s EXCEPT !.explanations = Append(@, [q_no |-> s.index + 1, kind |-> "invalid"]),
            !.bare = @ \cup {"skipped_invalid"},
            !.last_action = [kind |-> "auto_skip_invalid", ts |-> now]]

\* lines 663-669 and their three repetitions, none inside `async with`
AutoSkipInvalid(s) ==
  [s EXCEPT !.explanations = Append(@, [q_no |-> s.index + 1, kind |-> "invalid"]),
            !.skipped_invalid = @ + 1,
            !.bare = @ \cup {"skipped_invalid"},
            !.last_action = [kind |-> "auto_skip_invalid", ts |-> now]]

\* the notice has been sent (or has failed): the auto-skip is counted in the
\* dict send_question holds, then advance_question is called
SendInvalidCounted(t) ==
  /\ th[t].pc = "sq_invalid" /\ Quiet
  /\ LET sid == th[t].s IN
       /\ log' = Logged(sid, heap[sid].index, "invalid")
       /\ AdvanceQuestion(t, [th[t] EXCEPT !.s = 0],
                          Put(heap, sid, AutoSkipInvalid(heap[sid])), locks, timers,
                          daily_scores)
  /\ UNCHANGED <<sessions, nsid, queue, worker>>
  /\ UNCHANGED side

\* variant: the queue is never tried, every poll goes to the synchronous send
RejectedAlways(q) == TRUE

\* enqueue_send_poll(..., priority="user") returns False: put_nowait raised QueueFull
Rejected(q) == Len(q) >= MAX_USER_QUEUE_SIZE

\* enqueue_send_poll succeeded: the timer is armed at once
SendEnqueued(t) ==
  /\ AtSendQuestion(t)
  /\ sessions[th[t].uid] # 0
  /\ TokFree # {}
  /\ LET sid == sessions[th[t].uid]
         s == heap[sid]
         q == Questions[s.index + 1]
     IN
       /\ s.index < NQ
       /\ ~IsInvalid(q)
       /\ ~Rejected(queue)
       /\ queue' = Append(queue, [uid |-> th[t].uid, mid |-> PollId(sid, s.index)])
       /\ Return(t, th[t], Put(heap, sid, ArmTimer(Presenting(s), q.tl, NewToken)), locks,
                 timers \cup {Handle(th[t].uid, s.index, NewToken, now + q.tl)},
                 daily_scores)
  /\ UNCHANGED <<sessions, nsid, worker, log>>
  /\ UNCHANGED side

\* queue full: send_with_retries is awaited
SendQueueFull(t) ==
  /\ AtSendQuestion(t)
  /\ sessions[th[t].uid] # 0
  /\ LET sid == sessions[th[t].uid]
         s == heap[sid]
     IN
       /\ s.index < NQ
       /\ ~IsInvalid(Questions[s.index + 1])
       /\ Rejected(queue)
       /\ Suspend(t, [th[t] EXCEPT !.pc = "sq_fallback", !.s = sid, !.qi = s.index,
                                   !.wake = 0],
                  Put(heap, sid, Presenting(s)), locks, timers, daily_scores)
  /\ UNCHANGED <<sessions, nsid, queue, worker, log>>
  /\ UNCHANGED side

\* the fallback send returned a message: poll_message_id is stored under the
\* lock, then the timer is armed
FallbackSent(t) ==
  /\ th[t].pc = "sq_fallback" /\ Quiet
  /\ TokFree # {}
  /\ LET sid == th[t].s
         s == [heap[sid] EXCEPT !.poll_message_id = PollId(sid, th[t].qi),
                                !.last_activity = now]
         q == Questions[th[t].qi + 1]
     IN
       IF ~LockFree(locks, sid)
         THEN Suspend(t, [th[t] EXCEPT !.pc = "sq_fb_body"], heap, Enqueue(locks, sid, t),
                      timers, daily_scores)
         ELSE Return(t, th[t], Put(heap, sid, ArmTimer(s, q.tl, NewToken)), locks,
                     timers \cup {Handle(th[t].uid, s.index, NewToken, now + q.tl)},
                     daily_scores)
  /\ UNCHANGED <<sessions, nsid, queue, worker, log>>
  /\ UNCHANGED side

\* the fallback send raised: "high load" notice, send_question returns
FallbackFailed(t) ==
  /\ th[t].pc = "sq_fallback" /\ Quiet
  /\ Return(t, th[t], heap, locks, timers, daily_scores)
  /\ UNCHANGED <<sessions, nsid, queue, worker, log>>
  /\ UNCHANGED side

\* ------------------------------------------------- question_timeout_by_handle
\* A call_at handle is run by the loop once its time has come; the loop's clock
\* resolution lets it run one tick before.
TimerDue(h) == now + 1 >= h.at

\* variant: the token is not compared
TokenUnchecked(s, token) == TRUE

\* the token check: is this callback still the one the session waits for
TokenFresh(s, token) == s.timeout_token = token

\* The callback creates the task and the task's first step runs at the head of
\* the loop's next iteration: up to the first `async with`, nothing else runs.
\* No session, or another token: the callback is stale and ignored.
TimerFiredStale(h) ==
  /\ h \in timers
  /\ TimerDue(h)
  /\ Quiet
  /\ IF sessions[h.uid] = 0 THEN TRUE
     ELSE ~TokenFresh(heap[sessions[h.uid]], h.tok)
  /\ timers' = timers \ {h}
  /\ log' = IF sessions[h.uid] = 0 THEN log ELSE Noted(sessions[h.uid], h.qi, "stale")
  /\ UNCHANGED <<sessions, heap, nsid, locks, th, queue, worker, daily_scores>>
  /\ UNCHANGED side

\* The timeout is to be counted: fresh token, not transitioned, deadline reached.
Expiring(s, token) == ~s.transitioned /\ TokenFresh(s, token) /\ now >= s.q_deadline

\* variant: the deadline is not compared
FiredEarlyNever(s) == FALSE

\* now < deadline - 0.001: the callback runs before the deadline
FiredEarly(s) == now < s.q_deadline

\* question_timeout_by_handle inside `async with s["lock"]`, s being dict sid
TimerInLock(t, r, sid, T) ==
  LET s == heap[sid]
      L == Hold(locks, sid, t)
  IN
    /\ log' = IF Expiring(s, r.tok) THEN Logged(sid, s.index, "timeout") ELSE log
    /\ IF s.transitioned \/ ~TokenFresh(s, r.tok)
         THEN Return(t, r, heap, L, T, daily_scores)
       ELSE IF FiredEarly(s)
         \* fired before the deadline: scheduled again for it, same token
         THEN Return(t, r, Put(heap, sid, [s EXCEPT !.timeout_handle = r.tok]), L,
                     T \cup {Handle(r.uid, r.qi, r.tok, s.q_deadline)}, daily_scores)
       \* the timeout skip is counted and advance_question is called, still
       \* inside `async with s["lock"]`
       ELSE AdvanceQuestion(t, r, Put(heap, sid, ExpireQuestion(s, r.qi)), L, T,
                            daily_scores)

TimerFired(h) ==
  /\ h \in timers
  /\ TimerDue(h)
  /\ Quiet
  /\ th[h.tok].pc = "idle"
  /\ sessions[h.uid] # 0
  /\ LET sid == sessions[h.uid]
         r == [IdleTh EXCEPT !.pc = "tq_body", !.uid = h.uid, !.qi = h.qi, !.tok = h.tok,
                             !.hs = sid]
     IN
       /\ TokenFresh(heap[sid], h.tok)
       /\ IF LockFree(locks, sid)
            THEN TimerInLock(h.tok, r, sid, timers \ {h})
            ELSE /\ Suspend(h.tok, r, heap, Enqueue(locks, sid, h.tok), timers \ {h},
                            daily_scores)
                 /\ UNCHANGED log
  /\ UNCHANGED <<sessions, nsid, queue, worker>>
  /\ UNCHANGED side

\* the lock has been handed to the waiting timer task
TimerGranted(t) ==
  /\ th[t].pc = "tq_body" /\ Holds(t, th[t].hs)
  /\ Garbage = {}
  /\ TimerInLock(t, th[t], th[t].hs, timers)
  /\ UNCHANGED <<sessions, nsid, queue, worker>>
  /\ UNCHANGED side

\* ---------------------------------------------------------- _send_worker_loop
WorkerTake ==
  /\ worker.pc = "idle"
  /\ queue # <<>>
  /\ Quiet
  /\ worker' = [IdleWorker EXCEPT !.pc = "sending", !.uid = Head(queue).uid,
                                  !.mid = Head(queue).mid]
  /\ queue' = Tail(queue)
  /\ UNCHANGED <<sessions, heap, nsid, locks, timers, th, daily_scores, log>>
  /\ UNCHANGED side

\* send_with_retries raised, or the user has no session any more
WorkerDropped ==
  /\ worker.pc = "sending"
  /\ Quiet
  /\ worker' = IdleWorker
  /\ UNCHANGED <<sessions, heap, nsid, locks, timers, th, queue, daily_scores, log>>
  /\ UNCHANGED side

\* lines 373-375, inside `async with s["lock"]`
RecordPoll(s, mid) == [s EXCEPT !.poll_message_id = mid, !.last_activity = now]

\* the poll was delivered: poll_message_id goes into the user's current session
WorkerDelivered ==
  /\ worker.pc = "sending"
  /\ Quiet
  /\ sessions[worker.uid] # 0
  /\ LET sid == sessions[worker.uid] IN
       IF LockFree(locks, sid)
         THEN /\ heap' = Put(heap, sid, RecordPoll(heap[sid], worker.mid))
              /\ worker' = IdleWorker
              /\ UNCHANGED locks
         ELSE /\ worker' = [worker EXCEPT !.pc = "w_body", !.s = sid]
              /\ locks' = Enqueue(locks, sid, Worker)
              /\ UNCHANGED heap
  /\ UNCHANGED <<sessions, nsid, timers, th, queue, daily_scores, log>>
  /\ UNCHANGED side

\* the lock has been handed to the waiting worker
WorkerGranted ==
  /\ worker.pc = "w_body" /\ Holds(Worker, worker.s)
  /\ Garbage = {}
  /\ heap' = Put(heap, worker.s, RecordPoll(heap[worker.s], worker.mid))
  /\ locks' = Release(locks, worker.s)
  /\ worker' = IdleWorker
  /\ UNCHANGED <<sessions, nsid, timers, th, queue, daily_scores, log>>
  /\ UNCHANGED side

\* ------------------------------------------------------ cleanup_sessions_task
\* variant: the sweep does not look at in_question
IdleOrInQuestion(u) ==
  /\ sessions[u] # 0
  /\ now - heap[sessions[u]].last_activity > SESSION_TTL

Idle(u) ==
  /\ sessions[u] # 0
  /\ ~heap[sessions[u]].in_question
  /\ now - heap[sessions[u]].last_activity > SESSION_TTL

CleanupSweep ==
  /\ \E u \in Users : Idle(u)
  /\ Quiet
  /\ timers' = {x \in timers :
                  \A u \in Users : Idle(u) => x.tok # heap[sessions[u]].timeout_handle}
  /\ sessions' = [u \in Users |-> IF Idle(u) THEN 0 ELSE sessions[u]]
  /\ UNCHANGED <<heap, nsid, locks, th, queue, worker, daily_scores, log>>
  /\ UNCHANGED side

\* --------------------------------------------------------------------- time
\* one time unit later, in the frame of the new present
Earlier(ts, floor) == Max(ts - 1, 0 - floor)

Aged(s) ==
  [s EXCEPT !.last_activity = Earlier(@, SESSION_TTL + 1),
            !.last_action = IF @.kind \in {"skip", "timeout"}
                              THEN [@ EXCEPT !.ts = Earlier(@, LATE_NOTICE_WINDOW)]
                              ELSE @,
            !.last_late_msg_ts = Earlier(@, RATE_LIMIT_LATE_MSG_SECONDS + 1),
            !.q_deadline = IF @ = NoTime THEN @ ELSE Earlier(@, GRACE_SECONDS + 1)]

Tick ==
  /\ Quiet
  /\ heap' = [sid \in Sids |-> IF sid \in Live THEN Aged(heap[sid]) ELSE heap[sid]]
  /\ timers' = {[h EXCEPT !.at = Earlier(@, 0)] : h \in timers}
  /\ th' = [t \in Tids |->
              IF th[t].pc = "sleep"
                THEN [th[t] EXCEPT !.wake = Earlier(@, 0)]
              ELSE IF th[t].pc \in {"ha_stray_notice", "ha_late_notice"}
                THEN [th[t] EXCEPT !.ts = Earlier(@, RATE_LIMIT_LATE_MSG_SECONDS + 1)]
              ELSE th[t]]
  /\ UNCHANGED <<sessions, nsid, locks, queue, worker, daily_scores, log>>
  /\ UNCHANGED side

\* a dict that nothing which can still run refers to is freed, with its lock
\* and the tasks stuck on it
Collect ==
  /\ Garbage # {}
  /\ th' = [t \in Tids |-> IF Stuck(t) /\ th[t].s \in Garbage THEN IdleTh ELSE th[t]]
  /\ heap' = [sid \in Sids |-> IF sid \in Garbage THEN BlankSession ELSE heap[sid]]
  /\ locks' = [sid \in Sids |-> IF sid \in Garbage THEN FreeLock ELSE locks[sid]]
  /\ log' = [sid \in Sids |-> IF sid \in Garbage THEN <<>> ELSE log[sid]]
  /\ UNCHANGED <<sessions, nsid, timers, queue, worker, daily_scores>>
  /\ UNCHANGED side

Selections == {NoOpt, 0, 1}

Next ==
  \/ \E u \in Users : StartQuiz(u)
  \/ \E u \in Users : AnswerBlocked(u)
  \/ \E u \in Users : AnswerStray(u)
  \/ \E u \in Users : AnswerLate(u)
  \/ \E u \in Users, sel \in Selections : AnswerCounted(u, sel)
  \/ \E u \in Users : SkipBlocked(u)
  \/ \E u \in Users : SkipRejected(u)
  \/ \E u \in Users : SkipHonoured(u)
  \/ \E t \in Tids :
       \/ AnswerStrayNoticed(t) \/ AnswerLateNoticed(t)
       \/ SkipRejectAnswered(t) \/ SkipNotified(t)
       \/ SendNoSession(t) \/ SendPastEnd(t) \/ SendInvalid(t) \/ SendInvalidCounted(t)
       \/ SendEnqueued(t) \/ SendQueueFull(t) \/ FallbackSent(t) \/ FallbackFailed(t)
       \/ FinishSent(t) \/ FinishSendFailed(t)
       \/ TimerGranted(t)
  \/ \E h \in timers : TimerFiredStale(h)
  \/ \E h \in timers : TimerFired(h)
  \/ WorkerTake \/ WorkerDropped \/ WorkerDelivered \/ WorkerGranted
  \/ CleanupSweep
  \/ Tick
  \/ Collect

Spec == Init /\ [][Next]_vars

\* the quiz machine with its background tasks scheduled: what holds a lock
\* it was handed runs, freed dicts are collected, and cleanup_sessions_task
\* makes its sweep every minute
Background == CleanupSweep \/ Collect \/ WorkerGranted \/ \E t \in Toks : TimerGranted(t)

SweepLiveSpec == Spec /\ WF_vars(Background)

\* ------------------------------------------------------------ the catalog
\* Dates are day numbers; a date key is the day number of its date.
MaxDay == 3
Days == 1..MaxDay

QUIZ_SWITCH_HOUR == 17

Preloader == -3     \* the task that calls preload_quiz_if_needed at start-up and at each cutoff

\* variant: the cutoff hour itself still counts as before the cutoff
EffectiveDateForNowLate(today, hour) == IF hour <= QUIZ_SWITCH_HOUR THEN today - 1 ELSE today

\* effective_date_for_now: before the cutoff hour the day before counts
EffectiveDateForNow(today, hour) == IF hour < QUIZ_SWITCH_HOUR THEN today - 1 ELSE today

\* get_effective_quiz_date, eff being effective_date_for_now(): the last
\* available date not after eff, 0 for None
GetEffectiveQuizDate(available, eff) ==
  LET valid == {d \in available : d <= eff} IN
    IF valid = {} THEN 0 ELSE CHOOSE d \in valid : \A e \in valid : e <= d

\* _cached_quiz_lock as the one lock of a lock table
CacheLock == <<cached_quiz_lock>>

\* preload_quiz_if_needed inside its two `async with`: the key is cached, and a
\* key other than the current one clears the scoreboard and becomes current
PreloadInLock(key) ==
  /\ cached_quizzes' = cached_quizzes \cup {key}
  /\ daily_scores' = IF key # current_quiz_date_key
                       THEN [u \in Users |-> NoScore]
                       ELSE daily_scores
  /\ current_quiz_date_key' = key

\* preload_quiz_if_needed called by the start-up hook or by daily_preload_task.
\* available is the set of dates of the fetched sheet, empty when the fetch
\* failed; nothing happens then, or when no date is valid.
Preload(available) ==
  /\ ~InSeq(Preloader, cached_quiz_lock.waiters)
  /\ LET key == GetEffectiveQuizDate(available, effective_date) IN
       IF key = 0
         THEN UNCHANGED <<cached_quizzes, daily_scores, current_quiz_date_key,
                          cached_quiz_lock>>
       ELSE IF LockFree(CacheLock, 1)
         THEN PreloadInLock(key) /\ UNCHANGED cached_quiz_lock
         ELSE /\ cached_quiz_lock' = Enqueue(CacheLock, 1, Preloader)[1]
              /\ UNCHANGED <<cached_quizzes, daily_scores, current_quiz_date_key>>
  /\ UNCHANGED <<sessions, heap, nsid, locks, timers, th, queue, worker, log>>
  /\ UNCHANGED <<effective_date, queue_admin, metrics, call, input, output>>

\* the quiz of the current key is in the cache
QuizCached == current_quiz_date_key # 0 /\ current_quiz_date_key \in cached_quizzes

\* start_quiz is called by the update-processing task, which is the only
\* task that keeps _cached_quiz_lock across an await: it finds the lock free.
\* start_quiz with the quiz cached: the session dict is created, bound to the
\* current key; the quiz itself (Spec) is left out here
StartQuizCached(u) ==
  /\ th[Disp].pc = "idle"
  /\ LockFree(CacheLock, 1)
  /\ QuizCached
  /\ nsid < MaxSid
  /\ nsid' = nsid + 1
  /\ sessions' = [sessions EXCEPT ![u] = nsid + 1]
  /\ heap' = Put(heap, nsid + 1, NewSession(current_quiz_date_key))
  /\ UNCHANGED <<locks, timers, th, queue, worker, daily_scores, log>>
  /\ UNCHANGED side

\* start_quiz with nothing cached: preload_quiz_if_needed is awaited inside
\* `async with _cached_quiz_lock`.  A failed fetch or a sheet without a valid
\* date makes it return None and start_quiz reports the quiz as unavailable;
\* otherwise it comes to its own `async with _cached_quiz_lock`.
StartQuizPreloading(u, available) ==
  /\ th[Disp].pc = "idle"
  /\ LockFree(CacheLock, 1)
  /\ ~QuizCached
  /\ IF GetEffectiveQuizDate(available, effective_date) = 0
       THEN UNCHANGED <<th, cached_quiz_lock>>
       ELSE /\ th' = [th EXCEPT ![Disp] = [IdleTh EXCEPT !.pc = "preload_lock", !.uid = u]]
            /\ cached_quiz_lock' = Enqueue(Hold(CacheLock, 1, Disp), 1, Disp)[1]
  /\ UNCHANGED <<sessions, heap, nsid, locks, timers, queue, worker, daily_scores, log>>
  /\ UNCHANGED <<current_quiz_date_key, cached_quizzes, effective_date, queue_admin,
                 metrics, call, input, output>>

\* the user's quiz runs to finish_quiz, whose record and pop are taken here
QuizCompleted(u) ==
  /\ th[Disp].pc = "idle"
  /\ sessions[u] # 0
  /\ daily_scores' = RecordScore(daily_scores, u, sessions[u], heap[sessions[u]])
  /\ sessions' = [sessions EXCEPT ![u] = 0]
  /\ UNCHANGED <<heap, nsid, locks, timers, th, queue, worker, log>>
  /\ UNCHANGED side

\* the next cutoff passes
CutoffPasses ==
  /\ effective_date < MaxDay
  /\ effective_date' = effective_date + 1
  /\ UNCHANGED quiz
  /\ UNCHANGED <<current_quiz_date_key, cached_quizzes, cached_quiz_lock, queue_admin,
                 metrics, call, input, output>>

\* what load_daily_scores_from_disk can find for a user: nothing, or the
\* record of a day up to the present one
DiskRecords == {NoScore} \cup {[present |-> TRUE, quiz_date_key |-> k, sid |-> 0] :
                                k \in {d \in Days : d <= 1}}

\* the process starts: scores are loaded from disk, nothing is resolved yet
CatalogInit ==
  /\ sessions = [u \in Users |-> 0]
  /\ heap = [sid \in Sids |-> BlankSession]
  /\ nsid = 0
  /\ locks = [sid \in Sids |-> FreeLock]
  /\ timers = {}
  /\ th = [t \in Tids |-> IdleTh]
  /\ queue = <<>>
  /\ worker = IdleWorker
  /\ daily_scores \in [Users -> DiskRecords]
  /\ log = [sid \in Sids |-> <<>>]
  /\ current_quiz_date_key = 0
  /\ cached_quizzes = {}
  /\ cached_quiz_lock = FreeLock
  /\ effective_date = 1
  /\ queue_admin = <<>>
  /\ metrics = [queue_rejections_user |-> 0, queue_rejections_admin |-> 0]
  /\ call = [pc |-> "idle"]
  /\ input = 0
  /\ output = 0

CatalogNext ==
  \/ \E available \in SUBSET Days : Preload(available)
  \/ \E u \in Users : StartQuizCached(u)
  \/ \E u \in Users, available \in SUBSET Days : StartQuizPreloading(u, available)
  \/ \E u \in Users : QuizCompleted(u)
  \/ CutoffPasses

CatalogSpec == CatalogInit /\ [][CatalogNext]_vars

\* ------------------------------------------------- the date-key resolution
\* hours of the day at which a resolution is asked for
Hours == {9, 16, 17, 18}

ResolveInit ==
  /\ QuizInit
  /\ current_quiz_date_key = 1
  /\ cached_quizzes = {1}
  /\ cached_quiz_lock = FreeLock
  /\ effective_date = 1
  /\ queue_admin = <<>>
  /\ metrics = [queue_rejections_user |-> 0, queue_rejections_admin |-> 0]
  /\ call = [pc |-> "idle"]
  /\ input \in [today : Days, hour : Hours, available : SUBSET Days]
  /\ output = [done |-> FALSE]

\* get_effective_quiz_date(rows) at input.hour of input.today, the rows being
\* of the dates input.available
Resolve ==
  /\ ~output.done
  /\ output' = [done |-> TRUE,
                date |-> GetEffectiveQuizDate(input.available,
                                              EffectiveDateForNow(input.today, input.hour))]
  /\ UNCHANGED quiz
  /\ UNCHANGED <<current_quiz_date_key, cached_quizzes, cached_quiz_lock, effective_date,
                 queue_admin, metrics, call, input>>

ResolveSpec == ResolveInit /\ [][Resolve]_vars

\* --------------------------------------------------- normalize_sheet_rows
\* A float is a multiple of 1/Twelfths, or NaN.  A cell of the sheet is a text,
\* or is not there (the key is missing or None).
Twelfths == 12

Number(v) == [ok |-> TRUE, nan |-> FALSE, v |-> v]

NaN == [ok |-> TRUE, nan |-> TRUE, v |-> 0]

Raises == [ok |-> FALSE, nan |-> FALSE, v |-> 0]

DEFAULT_QUESTION_TIME == 20

DEFAULT_MARKS_PER_QUESTION == Number(2 * Twelfths)

DEFAULT_NEGATIVE_RATIO == Number(Twelfths \div 3)

Cell(text) == [given |-> TRUE, text |-> text]

\* r.get(key) is None
NoCell == [given |-> FALSE, text |-> ""]

NumberTexts == {"10", "3", "1", "0", "-3", "1.5", "0.25", "nan", "abc", ""}

DateTexts == {"01-01-2026", " 02-01-2026 ", "2026-01-01", "31-02-2026", ""}

\* a text of the correct_option column, character by character
OptionTexts ==
  { <<"A">>, <<"d">>, <<" ", "b", " ">>, <<"E">>, <<"A", "B">>, <<"1">>, <<" ">>, <<>> }

\* float(text)
Float(text) ==
  CASE text = "10"   -> Number(10 * Twelfths)
    [] text = "3"    -> Number(3 * Twelfths)
    [] text = "1"    -> Number(Twelfths)
    [] text = "0"    -> Number(0)
    [] text = "-3"   -> Number(0 - 3 * Twelfths)
    [] text = "1.5"  -> Number(Twelfths + Twelfths \div 2)
    [] text = "0.25" -> Number(Twelfths \div 4)
    [] text = "nan"  -> NaN
    [] OTHER         -> Raises

\* a < b on floats: false when either is NaN
FloatLess(a, b) == ~a.nan /\ ~b.nan /\ a.v < b.v

\* int(x), towards zero; it raises on NaN
IntOf(x) == IF x.v >= 0 THEN x.v \div Twelfths ELSE 0 - ((0 - x.v) \div Twelfths)

\* datetime.strptime(raw.strip(), "%d-%m-%Y").date() as a day number, 0 when it raises
ParseDate(raw) ==
  CASE raw = "01-01-2026"   -> 1
    [] raw = " 02-01-2026 " -> 2
    [] OTHER                -> 0

RECURSIVE LStrip(_)
LStrip(s) == IF s # <<>> /\ Head(s) = " " THEN LStrip(Tail(s)) ELSE s

RECURSIVE RStrip(_)
RStrip(s) == IF s # <<>> /\ s[Len(s)] = " " THEN RStrip(SubSeq(s, 1, Len(s) - 1)) ELSE s

\* str.strip
Strip(s) == RStrip(LStrip(s))

UpperChar(c) ==
  CASE c = "a" -> "A" [] c = "b" -> "B" [] c = "c" -> "C" [] c = "d" -> "D" [] OTHER -> c

\* str.upper
Upper(s) == [i \in 1..Len(s) |-> UpperChar(s[i])]

\* ord(c) - 65 for the capitals A to D
Ord65(c) == CASE c = "A" -> 0 [] c = "B" -> 1 [] c = "C" -> 2 [] c = "D" -> 3

\* parse_correct_option, NoOpt for None
ParseCorrectOption(cell) ==
  IF ~cell.given \/ cell.text = <<>> THEN NoOpt
  ELSE LET opt == Upper(Strip(cell.text)) IN
         IF Len(opt) # 1 \/ opt[1] \notin {"A", "B", "C", "D"} THEN NoOpt ELSE Ord65(opt[1])

\* r["_time_limit"]
TimeLimit(cell) ==
  IF ~cell.given THEN IF 1 > DEFAULT_QUESTION_TIME THEN 1 ELSE DEFAULT_QUESTION_TIME
  ELSE LET tval == Float(cell.text) IN
         IF ~tval.ok \/ tval.nan THEN DEFAULT_QUESTION_TIME
         ELSE IF 1 > IntOf(tval) THEN 1 ELSE IntOf(tval)

\* r["_marks"]
Marks(cell) ==
  LET m == IF cell.given THEN Float(cell.text) ELSE DEFAULT_MARKS_PER_QUESTION IN
    IF ~m.ok THEN DEFAULT_MARKS_PER_QUESTION
    ELSE IF FloatLess(m, Number(0)) THEN DEFAULT_MARKS_PER_QUESTION
    ELSE m

\* r["_neg_ratio"]
NegRatio(cell) ==
  LET nr == IF cell.given THEN Float(cell.text) ELSE DEFAULT_NEGATIVE_RATIO IN
    IF ~nr.ok THEN DEFAULT_NEGATIVE_RATIO
    ELSE IF FloatLess(nr, Number(0)) \/ FloatLess(Number(Twelfths), nr)
      THEN DEFAULT_NEGATIVE_RATIO
    ELSE nr

\* normalize_sheet_rows on a sheet of one row
NormalizeSheetRows(r) ==
  IF ~r.date.given \/ r.date.text = "" THEN <<>>
  ELSE IF ParseDate(r.date.text) = 0 THEN <<>>
  ELSE << [date_obj       |-> ParseDate(r.date.text),
           time_limit     |-> TimeLimit(r.time),
           marks          |-> Marks(r.marks),
           neg_ratio      |-> NegRatio(r.negative_ratio),
           invalid_reason |-> ParseCorrectOption(r.correct_option) = NoOpt] >>

NumberCells == {NoCell} \cup {Cell(x) : x \in NumberTexts}

SheetRows ==
  [date           : {NoCell} \cup {Cell(x) : x \in DateTexts},
   time           : NumberCells,
   marks          : NumberCells,
   negative_ratio : NumberCells,
   correct_option : {[given |-> FALSE, text |-> <<>>]} \cup {Cell(x) : x \in OptionTexts}]

NormalizeInit ==
  /\ QuizInit
  /\ current_quiz_date_key = 1
  /\ cached_quizzes = {1}
  /\ cached_quiz_lock = FreeLock
  /\ effective_date = 1
  /\ queue_admin = <<>>
  /\ metrics = [queue_rejections_user |-> 0, queue_rejections_admin |-> 0]
  /\ call = [pc |-> "idle"]
  /\ input \in SheetRows
  /\ output = [done |-> FALSE]

\* the fetched sheet is normalized
Normalize ==
  /\ ~output.done
  /\ output' = [done |-> TRUE, rows |-> NormalizeSheetRows(input)]
  /\ UNCHANGED quiz
  /\ UNCHANGED <<current_quiz_date_key, cached_quizzes, cached_quiz_lock, effective_date,
                 queue_admin, metrics, call, input>>

NormalizeSpec == NormalizeInit /\ [][Normalize]_vars

\* ------------------------------------------------------- send_with_retries
\* One activation, with its own clock: call.now is the time since the call.
\* One time unit is SEND_BASE_BACKOFF.
SEND_RETRY_MAX == 2
SEND_BASE_BACKOFF == 1
SEND_JITTER_MAX == 1

\* the retry_after values a RetryAfter can carry; 0: none given
RetryAfters == {0, 2, 3}

\* how much later than asked a sleep or an awaited send can end
Delays == {0, 1}

\* variant: one attempt more than the budget
MayAttemptOnceMore(c) == c.attempt <= c.max_retries + 1

\* the `while` condition
MayAttempt(c) == c.attempt <= c.max_retries

\* the loop head: the next attempt starts after its jitter sleep, or the
\* budget is used up and RuntimeError("Exceeded send retries") is raised
LoopHead(c, jitter) ==
  IF MayAttempt(c)
    THEN [c EXCEPT !.pc = "attempting", !.attempt = @ + 1, !.now = @ + jitter,
                   !.started = c.now + jitter]
    ELSE [c EXCEPT !.pc = "raised", !.error = "RuntimeError"]

\* send_with_retries(bot, chat_id, factory, max_retries) is called
CallBegins(max_retries, jitter) ==
  /\ call.pc = "idle"
  /\ call' = LoopHead([pc |-> "idle", attempt |-> 0, backoff |-> SEND_BASE_BACKOFF,
                       max_retries |-> max_retries, now |-> 0, started |-> 0, wake |-> 0,
                       not_before |-> 0, result |-> 0, error |-> "none"], jitter)
  /\ UNCHANGED quiz
  /\ UNCHANGED <<current_quiz_date_key, cached_quizzes, cached_quiz_lock, effective_date,
                 queue_admin, metrics, input, output>>

\* the awaited send comes back after `took`
Answered(c, took) == [c EXCEPT !.now = @ + took]

\* the send returned a message: it is the result of the call
AttemptSucceeds(took) ==
  /\ call.pc = "attempting"
  /\ call' = [Answered(call, took) EXCEPT !.pc = "returned", !.result = call.attempt]
  /\ UNCHANGED quiz
  /\ UNCHANGED <<current_quiz_date_key, cached_quizzes, cached_quiz_lock, effective_date,
                 queue_admin, metrics, input, output>>

\* variant: the wait named by the response is not used
RetryAfterBackoffOnly(c, retry_after) == c.backoff * c.attempt

\* getattr(e, "retry_after", None) or (backoff * attempt)
RetryAfterWait(c, retry_after) ==
  IF retry_after # 0 THEN retry_after ELSE c.backoff * c.attempt

\* asyncio.sleep(wait); backoff *= 2; continue
Backoff(c, wait) ==
  [c EXCEPT !.pc = "sleeping", !.wake = c.now + wait, !.backoff = @ * 2]

\* RetryAfter: the response names the wait (not_before notes when it ends)
AttemptRateLimited(took, retry_after) ==
  /\ call.pc = "attempting"
  /\ LET c == Answered(call, took) IN
       call' = [Backoff(c, RetryAfterWait(c, retry_after)) EXCEPT
                  !.not_before = c.now + retry_after]
  /\ UNCHANGED quiz
  /\ UNCHANGED <<current_quiz_date_key, cached_quizzes, cached_quiz_lock, effective_date,
                 queue_admin, metrics, input, output>>

\* TimedOut, NetworkError, or an exception that is no TelegramError
AttemptFailsTransient(took) ==
  /\ call.pc = "attempting"
  /\ LET c == Answered(call, took) IN
       call' = Backoff(c, c.backoff * c.attempt)
  /\ UNCHANGED quiz
  /\ UNCHANGED <<current_quiz_date_key, cached_quizzes, cached_quiz_lock, effective_date,
                 queue_admin, metrics, input, output>>

\* variant: the error is noted and the attempt is retried after a backoff
AttemptFailsForGoodRetried(took) ==
  /\ call.pc = "attempting"
  /\ LET c == Answered(call, took) IN
       call' = [Backoff(c, c.backoff * c.attempt) EXCEPT !.error = "TelegramError"]
  /\ UNCHANGED quiz
  /\ UNCHANGED <<current_quiz_date_key, cached_quizzes, cached_quiz_lock, effective_date,
                 queue_admin, metrics, input, output>>

\* any other TelegramError is raised to the caller
AttemptFailsForGood(took) ==
  /\ call.pc = "attempting"
  /\ call' = [Answered(call, took) EXCEPT !.pc = "raised", !.error = "TelegramError"]
  /\ UNCHANGED quiz
  /\ UNCHANGED <<current_quiz_date_key, cached_quizzes, cached_quiz_lock, effective_date,
                 queue_admin, metrics, input, output>>

\* the sleep ends, `late` after the time asked for, and the loop goes on
SleepEnds(late, jitter) ==
  /\ call.pc = "sleeping"
  /\ call' = LoopHead([call EXCEPT !.now = call.wake + late], jitter)
  /\ UNCHANGED quiz
  /\ UNCHANGED <<current_quiz_date_key, cached_quizzes, cached_quiz_lock, effective_date,
                 queue_admin, metrics, input, output>>

Jitters == 0..SEND_JITTER_MAX

RetryNext ==
  \/ \E max_retries \in 0..SEND_RETRY_MAX, jitter \in Jitters :
        CallBegins(max_retries, jitter)
  \/ \E took \in Delays : AttemptSucceeds(took)
  \/ \E took \in Delays, retry_after \in RetryAfters :
        AttemptRateLimited(took, retry_after)
  \/ \E took \in Delays : AttemptFailsTransient(took)
  \/ \E took \in Delays : AttemptFailsForGood(took)
  \/ \E late \in Delays, jitter \in Jitters : SleepEnds(late, jitter)

RetrySpec == Init /\ [][RetryNext]_vars

\* every send answers and every sleep ends
RetryLiveSpec == RetrySpec /\ WF_vars(RetryNext)

\* ------------------------------------------------------ the send semaphore
\* Several activations of send_with_retries at once (the worker's and those of
\* the send_question fallback), and _send_semaphore between them.  Here
\* call.gate is the semaphore and call.of[c] the activation of caller c.
MAX_CONCURRENT_SENDS == 2
MaxCallers == 3

Callers == 1..MaxCallers

\* asyncio.Semaphore(MAX_CONCURRENT_SENDS): the permits left, the tasks waiting
FreeGate == [value |-> MAX_CONCURRENT_SENDS, waiters |-> <<>>]

IdleCaller == [pc |-> "idle", attempt |-> 0, max_retries |-> 0, permit |-> FALSE]

\* `async with _send_semaphore`, entering: a permit is taken when one is left
\* and nobody waits, else the caller waits in line
EnterGate(k, c) ==
  IF k.gate.value > 0 /\ k.gate.waiters = <<>>
    THEN [k EXCEPT !.gate.value = @ - 1, !.of[c].permit = TRUE, !.of[c].pc = "in_gate"]
    ELSE [k EXCEPT !.gate.waiters = Append(@, c), !.of[c].pc = "waiting"]

\* `async with _send_semaphore`, leaving: the permit goes back, and on to the
\* first caller in line
LeaveGate(k, c) ==
  LET r == [k EXCEPT !.of[c].permit = FALSE] IN
    IF r.gate.waiters = <<>>
      THEN [r EXCEPT !.gate.value = @ + 1]
      ELSE [r EXCEPT !.gate.waiters = Tail(@),
                     !.of[Head(k.gate.waiters)].permit = TRUE,
                     !.of[Head(k.gate.waiters)].pc = "in_gate"]

\* variant: the except clauses run inside the `async with`
LeaveGateOnErrorLater(k, c) == k

\* the exception of the awaited send leaves the `async with` before the
\* except clause that handles it is entered
LeaveGateOnError(k, c) == LeaveGate(k, c)

\* the `while` loop head for caller c
GateLoopHead(k, c) ==
  IF k.of[c].attempt <= k.of[c].max_retries
    THEN EnterGate([k EXCEPT !.of[c].attempt = @ + 1], c)
    ELSE [k EXCEPT !.of[c].pc = "raised"]

GateFrame ==
  /\ UNCHANGED quiz
  /\ UNCHANGED <<current_quiz_date_key, cached_quizzes, cached_quiz_lock, effective_date,
                 queue_admin, metrics, input, output>>

\* caller c calls send_with_retries
GateCallBegins(c, max_retries) ==
  /\ call.of[c].pc = "idle"
  /\ call' = GateLoopHead([call EXCEPT !.of[c].max_retries = max_retries], c)
  /\ GateFrame

\* inside the gate: the jitter sleep, if any, is over and the send is awaited
GateSendStarts(c) ==
  /\ call.of[c].pc = "in_gate"
  /\ call' = [call EXCEPT !.of[c].pc = "sending"]
  /\ GateFrame

\* the send returned a message
GateSendSucceeds(c) ==
  /\ call.of[c].pc = "sending"
  /\ call' = LeaveGate([call EXCEPT !.of[c].pc = "returned"], c)
  /\ GateFrame

\* RetryAfter, TimedOut, NetworkError or another exception: asyncio.sleep(...)
GateSendFailsTransient(c) ==
  /\ call.of[c].pc = "sending"
  /\ call' = LeaveGateOnError([call EXCEPT !.of[c].pc = "backoff"], c)
  /\ GateFrame

\* any other TelegramError: raised
GateSendFailsForGood(c) ==
  /\ call.of[c].pc = "sending"
  /\ call' = LeaveGateOnError([call EXCEPT !.of[c].pc = "raised"], c)
  /\ GateFrame

\* the backoff sleep is over: `continue`
GateBackoffEnds(c) ==
  /\ call.of[c].pc = "backoff"
  /\ call' = GateLoopHead(call, c)
  /\ GateFrame

\* the caller has its result or its exception and may call again later
GateCallEnds(c) ==
  /\ call.of[c].pc \in {"returned", "raised"}
  /\ call' = [call EXCEPT !.of[c] = IdleCaller]
  /\ GateFrame

GateInit ==
  /\ QuizInit
  /\ current_quiz_date_key = 1
  /\ cached_quizzes = {1}
  /\ cached_quiz_lock = FreeLock
  /\ effective_date = 1
  /\ queue_admin = <<>>
  /\ metrics = [queue_rejections_user |-> 0, queue_rejections_admin |-> 0]
  /\ call = [gate |-> FreeGate, of |-> [c \in Callers |-> IdleCaller]]
  /\ input = 0
  /\ output = 0

GateNext ==
  \E c \in Callers :
    \/ \E max_retries \in 0..SEND_RETRY_MAX : GateCallBegins(c, max_retries)
    \/ GateSendStarts(c)
    \/ GateSendSucceeds(c)
    \/ GateSendFailsTransient(c)
    \/ GateSendFailsForGood(c)
    \/ GateBackoffEnds(c)
    \/ GateCallEnds(c)

GateSpec == GateInit /\ [][GateNext]_vars

\* --------------------------------------------------------- the send queues
MAX_ADMIN_QUEUE_SIZE == 2
MaxRejections == 3      \* rejections counted per queue

Priorities == {"user", "admin"}

\* variant: the queue takes one job more than maxsize
QueueOverfull(q, maxsize) == Len(q) > maxsize

\* put_nowait raises QueueFull
QueueFull(q, maxsize) == Len(q) >= maxsize

PollJob(u, priority) == [uid |-> u, mid |-> 0, priority |-> priority]

\* enqueue_send_poll: put_nowait on the queue of the priority; output is the
\* value returned
EnqueueSendPoll(u, priority) ==
  /\ IF priority = "admin"
       THEN IF QueueFull(queue_admin, MAX_ADMIN_QUEUE_SIZE)
              THEN /\ metrics.queue_rejections_admin < MaxRejections
                   /\ metrics' = [metrics EXCEPT !.queue_rejections_admin = @ + 1]
                   /\ output' = FALSE
                   /\ UNCHANGED <<queue, queue_admin>>
              ELSE /\ queue_admin' = Append(queue_admin, PollJob(u, priority))
                   /\ output' = TRUE
                   /\ UNCHANGED <<queue, metrics>>
       ELSE IF QueueFull(queue, MAX_USER_QUEUE_SIZE)
              THEN /\ metrics.queue_rejections_user < MaxRejections
                   /\ metrics' = [metrics EXCEPT !.queue_rejections_user = @ + 1]
                   /\ output' = FALSE
                   /\ UNCHANGED <<queue, queue_admin>>
              ELSE /\ queue' = Append(queue, PollJob(u, priority))
                   /\ output' = TRUE
                   /\ UNCHANGED <<queue_admin, metrics>>
  /\ UNCHANGED <<sessions, heap, nsid, locks, timers, th, worker, daily_scores, log>>
  /\ UNCHANGED <<current_quiz_date_key, cached_quizzes, cached_quiz_lock, effective_date,
                 call, input>>

\* _send_worker_loop takes its next job: the admin queue first
QueueGet ==
  /\ IF queue_admin # <<>>
       THEN queue_admin' = Tail(queue_admin) /\ UNCHANGED queue
       ELSE queue # <<>> /\ queue' = Tail(queue) /\ UNCHANGED queue_admin
  /\ UNCHANGED <<sessions, heap, nsid, locks, timers, th, worker, daily_scores, log>>
  /\ UNCHANGED <<current_quiz_date_key, cached_quizzes, cached_quiz_lock, effective_date,
                 metrics, call, input, output>>

QueueNext ==
  \/ \E u \in Users, priority \in Priorities : EnqueueSendPoll(u, priority)
  \/ QueueGet

QueueSpec == Init /\ [][QueueNext]_vars

\* ------------------------------------------------- the worker and its queues
\* _send_worker_loop with both queues, the jobs of several chats, and callers
\* of enqueue_send_poll around it.  The sessions stand still: no handler runs,
\* so every s["lock"] is free when the worker asks for it.
Chats == Sids

\* a session whose poll has been handed to the queue a second ago
AwaitingPoll == [NewSession(1) EXCEPT !.in_question = TRUE, !.last_activity = now - 1]

\* the job is in the worker's hands
Taken(job) == [IdleWorker EXCEPT !.pc = "sending", !.uid = job.uid, !.mid = job.mid]

\* _send_queue_admin.get_nowait() returns a job
LoopTakesAdmin ==
  /\ worker.pc = "idle"
  /\ queue_admin # <<>>
  /\ worker' = Taken(Head(queue_admin))
  /\ queue_admin' = Tail(queue_admin)
  /\ UNCHANGED <<sessions, heap, nsid, locks, timers, th, queue, daily_scores, log>>
  /\ UNCHANGED <<current_quiz_date_key, cached_quizzes, cached_quiz_lock, effective_date,
                 metrics, call, input, output>>

\* QueueEmpty, and _send_queue_user.get() has a job at hand
LoopTakesUser ==
  /\ worker.pc = "idle"
  /\ queue_admin = <<>>
  /\ queue # <<>>
  /\ worker' = Taken(Head(queue))
  /\ queue' = Tail(queue)
  /\ UNCHANGED <<sessions, heap, nsid, locks, timers, th, daily_scores, log>>
  /\ UNCHANGED side

\* QueueEmpty, and _send_queue_user.get() waits, for a second at most
LoopWaits ==
  /\ worker.pc = "idle"
  /\ queue_admin = <<>>
  /\ queue = <<>>
  /\ worker' = [IdleWorker EXCEPT !.pc = "waiting"]
  /\ UNCHANGED <<sessions, heap, nsid, locks, timers, th, queue, daily_scores, log>>
  /\ UNCHANGED side

\* the pending get() is served by a put_nowait on the user queue
LoopWakes ==
  /\ worker.pc = "waiting"
  /\ queue # <<>>
  /\ worker' = Taken(Head(queue))
  /\ queue' = Tail(queue)
  /\ UNCHANGED <<sessions, heap, nsid, locks, timers, th, daily_scores, log>>
  /\ UNCHANGED side

\* asyncio.TimeoutError: `continue`
LoopTimesOut ==
  /\ worker.pc = "waiting"
  /\ queue = <<>>
  /\ worker' = IdleWorker
  /\ UNCHANGED <<sessions, heap, nsid, locks, timers, th, queue, daily_scores, log>>
  /\ UNCHANGED side

\* variant: the exception of send_with_retries ends the loop
LoopSendFailsFatal ==
  /\ worker.pc = "sending"
  /\ worker' = [IdleWorker EXCEPT !.pc = "stopped"]
  /\ log' = Noted(worker.uid, 0, "send_failed")
  /\ UNCHANGED <<sessions, heap, nsid, locks, timers, th, queue, daily_scores>>
  /\ UNCHANGED side

\* send_with_retries raised (a TelegramError, or "Exceeded send retries"):
\* logger.exception, task_done, result is None, back to the loop head.  The
\* log keeps the failure of a chat once.
LoopSendFails ==
  /\ worker.pc = "sending"
  /\ worker' = IdleWorker
  /\ log' = Noted(worker.uid, 0, "send_failed")
  /\ UNCHANGED <<sessions, heap, nsid, locks, timers, th, queue, daily_scores>>
  /\ UNCHANGED side

\* send_with_retries returned the message: task_done, and the message id goes
\* into the session of the job's user, if there is one
LoopSendDelivers ==
  /\ worker.pc = "sending"
  /\ worker' = IdleWorker
  /\ heap' = IF sessions[worker.uid] # 0
               THEN Put(heap, sessions[worker.uid],
                        RecordPoll(heap[sessions[worker.uid]], worker.mid))
               ELSE heap
  /\ UNCHANGED <<sessions, nsid, locks, timers, th, queue, daily_scores, log>>
  /\ UNCHANGED side

\* some chats have a session that waits for its poll, the others have none
WorkerLoopInit ==
  /\ \E live \in SUBSET Chats :
        sessions = [c \in Chats |-> IF c \in live THEN c ELSE 0]
  /\ heap = [sid \in Sids |-> AwaitingPoll]
  /\ nsid = MaxSid
  /\ locks = [sid \in Sids |-> FreeLock]
  /\ timers = {}
  /\ th = [t \in Tids |-> IdleTh]
  /\ queue = <<>>
  /\ worker = IdleWorker
  /\ daily_scores = [c \in Chats |-> NoScore]
  /\ log = [sid \in Sids |-> <<>>]
  /\ current_quiz_date_key = 1
  /\ cached_quizzes = {1}
  /\ cached_quiz_lock = FreeLock
  /\ effective_date = 1
  /\ queue_admin = <<>>
  /\ metrics = [queue_rejections_user |-> 0, queue_rejections_admin |-> 0]
  /\ call = [pc |-> "idle"]
  /\ input = 0
  /\ output = FALSE

\* the worker's own steps, other than the take from the admin queue
WorkerLoopSteps ==
  \/ LoopTakesUser
  \/ LoopWaits
  \/ LoopWakes
  \/ LoopTimesOut
  \/ LoopSendFails
  \/ LoopSendDelivers

\* the worker among callers of enqueue_send_poll of either priority
WorkerLoopNext ==
  \/ \E c \in Chats, priority \in Priorities : EnqueueSendPoll(c, priority)
  \/ LoopTakesAdmin
  \/ WorkerLoopSteps

WorkerLoopSpec == WorkerLoopInit /\ [][WorkerLoopNext]_vars

\* the worker as this program runs it: send_question, the one caller of
\* enqueue_send_poll, passes priority "user", and the admin queue stays empty
UserLoopNext ==
  \/ \E c \in Chats : EnqueueSendPoll(c, "user")
  \/ WorkerLoopSteps

\* the worker task is scheduled whenever it can run
UserLoopSpec == WorkerLoopInit /\ [][UserLoopNext]_vars /\ WF_vars(WorkerLoopSteps)

\* ------------------------------------------------ _session_integrity_check
\* The check over a sessions dict whose counters are drawn freely, sums above
\* the number of questions included.  output.warnings is what it logs.
MaxCount == 2

Counts == 0..MaxCount

SkippedSum(s) == s.skipped_user + s.skipped_timeout + s.skipped_invalid

\* the logger.warning calls of one pass: the user, and which comparison held
SessionIntegrityCheck ==
  {[uid |-> u, issue |-> "over"] :
      u \in {v \in Users : sessions[v] # 0 /\
                 heap[sessions[v]].attempted + SkippedSum(heap[sessions[v]]) > NQ}}
  \cup
  {[uid |-> u, issue |-> "under"] :
      u \in {v \in Users : sessions[v] # 0 /\
                 heap[sessions[v]].attempted + SkippedSum(heap[sessions[v]]) < NQ}}

IntegrityInit ==
  /\ \E a, su, st, si \in Counts :
        heap = [sid \in Sids |->
                  IF sid = 1
                    THEN [NewSession(1) EXCEPT !.attempted = a, !.skipped_user = su,
                                               !.skipped_timeout = st, !.skipped_invalid = si]
                    ELSE BlankSession]
  /\ sessions = [u \in Users |-> 1]
  /\ nsid = 1
  /\ locks = [sid \in Sids |-> FreeLock]
  /\ timers = {}
  /\ th = [t \in Tids |-> IdleTh]
  /\ queue = <<>>
  /\ worker = IdleWorker
  /\ daily_scores = [u \in Users |-> NoScore]
  /\ log = [sid \in Sids |-> <<>>]
  /\ current_quiz_date_key = 1
  /\ cached_quizzes = {1}
  /\ cached_quiz_lock = FreeLock
  /\ effective_date = 1
  /\ queue_admin = <<>>
  /\ metrics = [queue_rejections_user |-> 0, queue_rejections_admin |-> 0]
  /\ call = [pc |-> "idle"]
  /\ input = 0
  /\ output = [done |-> FALSE]

IntegrityCheck ==
  /\ ~output.done
  /\ output' = [done |-> TRUE, warnings |-> SessionIntegrityCheck]
  /\ UNCHANGED quiz
  /\ UNCHANGED <<current_quiz_date_key, cached_quizzes, cached_quiz_lock, effective_date,
                 queue_admin, metrics, call, input>>

IntegritySpec == IntegrityInit /\ [][IntegrityCheck]_vars

\* ---------------------------------------------------------- the leaderboard
LEADERBOARD_TOP == 3    \* the slice [:10]
MaxRecords == 4         \* score records on the board

Names == <<"A", "B", "C", "D", "E">>

Scores == {8, 10}

Times == {20, 40, 50}

\* daily_scores.values(), in insertion order: the i-th record is of the i-th user
Boards ==
  UNION {[1..n -> Scores \X Times] : n \in 0..MaxRecords}

ScoreRecord(i, st) == [name |-> Names[i], score |-> st[1], time |-> st[2]]

BoardValues(b) == [i \in 1..Len(b) |-> ScoreRecord(i, b[i])]

\* variant: the lower score first
KeyBeforeAscending(a, b) ==
  \/ a.score < b.score
  \/ a.score = b.score /\ a.time < b.time

\* key(a) < key(b) for key = lambda x: (-x["score"], x["time"])
KeyBefore(a, b) ==
  \/ 0 - a.score < 0 - b.score
  \/ a.score = b.score /\ a.time < b.time

RECURSIVE InsertSorted(_, _)
\* r goes behind every record whose key is not greater than its own
InsertSorted(r, s) ==
  IF s = <<>> THEN <<r>>
  ELSE IF KeyBefore(r, Head(s)) THEN <<r>> \o s
  ELSE <<Head(s)>> \o InsertSorted(r, Tail(s))

RECURSIVE SortedByKey(_)
\* sorted(...): stable, records of equal key keep their order
SortedByKey(s) ==
  IF s = <<>> THEN <<>>
  ELSE InsertSorted(s[Len(s)], SortedByKey(SubSeq(s, 1, Len(s) - 1)))

\* ranked = sorted(daily_scores.values(), key=...)[:10]
Ranked(values) ==
  LET s == SortedByKey(values) IN
    IF Len(s) <= LEADERBOARD_TOP THEN s ELSE SubSeq(s, 1, LEADERBOARD_TOP)

LeaderInit ==
  /\ QuizInit
  /\ current_quiz_date_key = 1
  /\ cached_quizzes = {1}
  /\ cached_quiz_lock = FreeLock
  /\ effective_date = 1
  /\ queue_admin = <<>>
  /\ metrics = [queue_rejections_user |-> 0, queue_rejections_admin |-> 0]
  /\ call = [pc |-> "idle"]
  /\ input \in {BoardValues(b) : b \in Boards}
  /\ output = [done |-> FALSE]

\* finish_quiz and admin_leaderboard compute the ranking
RankBoard ==
  /\ ~output.done
  /\ output' = [done |-> TRUE, ranked |-> Ranked(input)]
  /\ UNCHANGED quiz
  /\ UNCHANGED <<current_quiz_date_key, cached_quizzes, cached_quiz_lock, effective_date,
                 queue_admin, metrics, call, input>>

LeaderSpec == LeaderInit /\ [][RankBoard]_vars

\* ------------------------------------------------------------------ claims
\* the sum _session_integrity_check compares with len(questions)
Total(s) == s.attempted + s.skipped_user + s.skipped_timeout + s.skipped_invalid

\* the terminal events counted for dict sid
Resolutions(sid) == SelectSeq(log[sid], LAMBDA e : e.kind # "stale")

Count(sid, kinds) == Cardinality({j \in 1..Len(log[sid]) : log[sid][j].kind \in kinds})

\* a task is inside finish_quiz, at its first send_message
Finishing(t) == th[t].pc = "fin_send"

\* C1: every session that reaches finish_quiz has attempted + skipped_user +
\* skipped_timeout + skipped_invalid equal to the number of questions.
C1_FinishedTotals ==
  \A t \in Tids : Finishing(t) => Total(heap[th[t].s]) = NQ

\* a quiz finishes with an answer, an invalid-question auto-skip and a late
\* answer counted
C1_Witness ==
  \E t \in Tids :
    /\ Finishing(t)
    /\ heap[th[t].s].attempted = 1
    /\ heap[th[t].s].skipped_invalid = 1
    /\ heap[th[t].s].skipped_timeout = 1

\* C2: for every question index of a session at most one terminal event is
\* ever counted, and the counters attempted, skipped_user and skipped_timeout
\* count exactly these events.
C2_OneTerminalEvent ==
  \A sid \in Sids :
    LET r == Resolutions(sid) IN
      /\ \A i, j \in 1..Len(r) : r[i].idx = r[j].idx => i = j
      /\ heap[sid].attempted = Count(sid, {"answer"})
      /\ heap[sid].skipped_user = Count(sid, {"skip"})
      /\ heap[sid].skipped_timeout = Count(sid, {"timeout", "late"})
      /\ heap[sid].skipped_invalid = Count(sid, {"invalid"})

\* one session has counted a user skip, an invalid-question auto-skip and a
\* timer's timeout, each for another index
C2_Witness ==
  \E sid \in Sids :
    /\ Count(sid, {"skip"}) = 1
    /\ Count(sid, {"invalid"}) = 1
    /\ Count(sid, {"timeout"}) = 1

\* C6: in every reachable state the sum of the four counters of a live session
\* does not exceed the number of questions.
C6_TotalBounded ==
  \A u \in Users : sessions[u] # 0 => Total(heap[sessions[u]]) <= NQ

\* a live session has every question counted and is still stored
C6_Witness ==
  \E u \in Users :
    /\ sessions[u] # 0
    /\ Total(heap[sessions[u]]) = NQ
    /\ heap[sessions[u]].attempted >= 1

\* C3: once question_timeout_by_handle has counted a timeout for an index, the
\* index has moved past it: wherever the run that counted it comes to rest,
\* the timed-out question is behind the session.
C3_TimeoutAdvances ==
  \A sid \in Sids :
    \A j \in 1..Len(log[sid]) :
      log[sid][j].kind = "timeout" => heap[sid].index > log[sid][j].idx

\* C4: a timer callback whose token is not the session's current timeout_token
\* changes neither the index nor any counter of the user's session.
\* A handle that leaves the pending set while its token is stale has fired:
\* cancel() is only ever called on the handle the session holds.
Counters(s) ==
  <<s.index, s.attempted, s.wrong, s.score, s.marks, s.skipped_user, s.skipped_timeout,
    s.skipped_invalid>>

StaleHandle(h) ==
  /\ sessions[h.uid] # 0
  /\ heap[sessions[h.uid]].timeout_token # h.tok

C4_StaleTimerStep ==
  \A h \in timers :
    StaleHandle(h) /\ h \notin timers' =>
      /\ sessions'[h.uid] = sessions[h.uid]
      /\ Counters(heap'[sessions[h.uid]]) = Counters(heap[sessions[h.uid]])
      /\ heap'[sessions[h.uid]].timeout_token = heap[sessions[h.uid]].timeout_token

C4_StaleTimerNoOp == [][C4_StaleTimerStep]_vars

\* the timer of question 0 of a replaced session was ignored while the new
\* session had a later question open, which is still open and uncounted
C4_Witness ==
  \E sid \in Sids :
    /\ InSeq([idx |-> 0, kind |-> "stale"], log[sid])
    /\ heap[sid].index = 2
    /\ heap[sid].in_question
    /\ Len(Resolutions(sid)) = 2

\* C7: the index is the number of resolutions counted: wherever a run comes
\* to rest, no counted resolution has left the index un-incremented and none
\* has incremented it twice.
C7_IndexCountsResolutions ==
  \A u \in Users :
    sessions[u] # 0 => heap[sessions[u]].index = Len(Resolutions(sessions[u]))

\* C10: a skip request on an active, untransitioned question is honoured,
\* whatever was skipped before: skipped_user and index each increase by one.
SkipRequest(u) == SkipBlocked(u) \/ SkipRejected(u) \/ SkipHonoured(u)

C10_SkipStep ==
  \A u \in Users :
    (/\ sessions[u] # 0
     /\ LockFree(locks, sessions[u])
     /\ heap[sessions[u]].in_question
     /\ ~heap[sessions[u]].transitioned
     /\ SkipRequest(u))
    => /\ heap'[sessions[u]].skipped_user = heap[sessions[u]].skipped_user + 1
       /\ heap'[sessions[u]].index = heap[sessions[u]].index + 1

C10_SkipHonoured == [][C10_SkipStep]_vars

\* C5: marks change only on an attempted answer: the correct option adds the
\* question's marks, any other attempted answer subtracts marks * negative
\* ratio; a user skip, a timeout, a late answer and an invalid-question
\* auto-skip leave marks alone and increment only their own counter.
Skips(s) == <<s.skipped_user, s.skipped_timeout, s.skipped_invalid>>

C5_AnswerStep(u, selected) ==
  LET s == heap[sessions[u]]
      s2 == heap'[sessions[u]]
      q == Questions[s.index + 1]
  IN  /\ s2.attempted = s.attempted + 1
      /\ Skips(s2) = Skips(s)
      /\ IF selected = q.correct
            THEN s2.marks = s.marks + q.marks * RatioDen /\ s2.wrong = s.wrong
            ELSE s2.marks = s.marks - q.marks * q.neg /\ s2.wrong = s.wrong + 1

C5_SkipStep(sid) ==
  LET s == heap[sid]
      s2 == heap'[sid]
      d == <<s2.skipped_user - s.skipped_user, s2.skipped_timeout - s.skipped_timeout,
             s2.skipped_invalid - s.skipped_invalid>>
  IN  /\ s2.marks # s.marks => s2.attempted = s.attempted + 1
      /\ d \in {<<0, 0, 0>>, <<1, 0, 0>>, <<0, 1, 0>>, <<0, 0, 1>>}
      /\ d # <<0, 0, 0>> =>
            /\ s2.marks = s.marks
            /\ s2.attempted = s.attempted
            /\ s2.wrong = s.wrong
            /\ s2.score = s.score

C5_MarksStep ==
  /\ \A u \in Users, selected \in Selections :
        AnswerCounted(u, selected) => C5_AnswerStep(u, selected)
  /\ \A sid \in Sids : sid \notin Garbage => C5_SkipStep(sid)

C5_MarksRules == [][C5_MarksStep]_vars

\* a correct answer (2 marks), an invalid question and a wrong answer (3 marks
\* at ratio 4/4) have been counted
C5_Witness ==
  \E sid \in Sids :
    /\ heap[sid].score = 1
    /\ heap[sid].wrong = 1
    /\ heap[sid].skipped_invalid = 1
    /\ heap[sid].marks = 2 * RatioDen - 3 * 4

\* C8: per session at most one prompt is open and at most one timeout timer
\* is live (pending or running with the session's current token), and a
\* question is presented only when every earlier index has been resolved and
\* no prompt of the session is open.  A prompt left behind by a session that
\* start_quiz replaced belongs to no session.
LiveTimers(u) ==
  {h \in timers : h.uid = u /\ sessions[u] # 0 /\ heap[sessions[u]].timeout_token = h.tok}

LiveTimerTasks(u) ==
  {t \in Toks : /\ th[t].pc = "tq_body"
                /\ th[t].uid = u
                /\ th[t].hs = sessions[u]
                /\ heap[th[t].hs].timeout_token = t}

C8_OnePrompt ==
  \A u \in Users :
    /\ Cardinality(LiveTimers(u)) + Cardinality(LiveTimerTasks(u)) <= 1
    /\ sessions[u] # 0 /\ heap[sessions[u]].in_question =>
          \A i \in 0..(heap[sessions[u]].index - 1) :
            InSeq(i, [j \in 1..Len(Resolutions(sessions[u])) |->
                        Resolutions(sessions[u])[j].idx])

C8_PresentStep ==
  \A sid \in Sids :
    heap'[sid].in_question /\ heap'[sid].timeout_token # heap[sid].timeout_token =>
      /\ ~heap[sid].in_question
      /\ heap[sid].timeout_token = 0

AnswerArrives(u) ==
  \/ AnswerBlocked(u)
  \/ AnswerStray(u)
  \/ AnswerLate(u)
  \/ \E selected \in Selections : AnswerCounted(u, selected)

C9_LateStep ==
  \A u \in Users :
    (/\ sessions[u] # 0
     /\ LockFree(locks, sessions[u])
     /\ ~heap[sessions[u]].transitioned
     /\ heap[sessions[u]].q_deadline # NoTime
     /\ now > heap[sessions[u]].q_deadline + GRACE_SECONDS
     /\ AnswerArrives(u))
    => LET s == heap[sessions[u]]
           s2 == heap'[sessions[u]]
       IN  /\ \A h \in timers' : h.tok # s.timeout_handle \/ s.timeout_handle = 0
           /\ s2.timeout_token = 0
           /\ s2.timeout_handle = 0
           /\ s2.skipped_timeout = s.skipped_timeout + 1
           /\ s2.index = s.index + 1
           /\ s2.transitioned
           /\ ~s2.in_question
           /\ s2.attempted = s.attempted
           /\ s2.wrong = s.wrong
           /\ s2.marks = s.marks

C9_LateAnswerIsTimeout == [][C9_LateStep]_vars

\* a late answer to the first question has been recorded as a timeout skip
C9_Witness ==
  \E sid \in Sids :
    /\ Count(sid, {"late"}) = 1
    /\ heap[sid].skipped_timeout = 1
    /\ heap[sid].attempted = 0
    /\ heap[sid].index = 1
    /\ heap[sid].transitioned

\* C11: a session whose question could not be delivered does not stall: it is
\* removed from `sessions`, or the question is resolved and the session moves
\* on.  It never stays stored with questions left, no prompt open, no timer
\* pending and nothing in progress for it.
InProgress(u) ==
  \/ th[Disp].pc # "idle" /\ th[Disp].uid = u
  \/ \E t \in Toks : th[t].pc # "idle" /\ th[t].uid = u
  \/ worker.pc # "idle" /\ worker.uid = u
  \/ \E j \in 1..Len(queue) : queue[j].uid = u

Stalled(u) ==
  /\ sessions[u] # 0
  /\ heap[sessions[u]].index < NQ
  /\ ~heap[sessions[u]].in_question
  /\ LiveTimers(u) = {}
  /\ ~InProgress(u)

C11_NoSilentStall == \A u \in Users : ~Stalled(u)

\* C12: start_quiz never waits for _cached_quiz_lock while it holds that lock
\* itself: it always gets past the cache lookup, to a session or to the
\* "not available" message.
C12_StartQuizPassesCacheLock ==
  ~(cached_quiz_lock.holder = Disp /\ InSeq(Disp, cached_quiz_lock.waiters))

\* C13: after a rate-limit response that names a wait W, no attempt starts
\* before W has passed; and a call that has a result returned it from the
\* attempt that succeeded, which was its last.
C13_WaitHonoured ==
  /\ call.pc = "attempting" => call.started >= call.not_before
  /\ call.pc # "idle" /\ call.result # 0 =>
        call.pc = "returned" /\ call.result = call.attempt

\* the third attempt succeeded, after a rate-limit response naming 3 units
C13_Witness ==
  /\ call.pc = "returned"
  /\ call.result = 3
  /\ call.not_before >= 3

\* C14: send_with_retries ends: it makes at most max_retries + 1 attempts,
\* raises RuntimeError only when that many have failed, and every call comes
\* to a return or a raise.
C14_Bounded ==
  call.pc # "idle" =>
    /\ call.attempt <= call.max_retries + 1
    /\ call.error = "RuntimeError" => call.attempt = call.max_retries + 1

C14_Terminates == []C14_Bounded /\ <>(call.pc \in {"returned", "raised"})

\* three attempts of a call with max_retries = 2 failed and the call raised
C14_Witness ==
  /\ call.pc = "raised"
  /\ call.error = "RuntimeError"
  /\ call.max_retries = 2
  /\ call.attempt = 3

\* C15: enqueue_send_poll on a queue at capacity returns False, adds exactly one
\* to that queue's rejection counter and leaves both queues as they are; no
\* queue is ever longer than its maxsize.
AtCapacity(priority) ==
  IF priority = "admin" THEN Len(queue_admin) >= MAX_ADMIN_QUEUE_SIZE
                        ELSE Len(queue) >= MAX_USER_QUEUE_SIZE

C15_Within ==
  /\ Len(queue) <= MAX_USER_QUEUE_SIZE
  /\ Len(queue_admin) <= MAX_ADMIN_QUEUE_SIZE

C15_RejectStep ==
  \A u \in Users, priority \in Priorities :
    AtCapacity(priority) /\ EnqueueSendPoll(u, priority) =>
      /\ output' = FALSE
      /\ queue' = queue
      /\ queue_admin' = queue_admin
      /\ metrics'.queue_rejections_admin =
            metrics.queue_rejections_admin + (IF priority = "admin" THEN 1 ELSE 0)
      /\ metrics'.queue_rejections_user =
            metrics.queue_rejections_user + (IF priority = "user" THEN 1 ELSE 0)

C15_QueueRejection == []C15_Within /\ [][C15_RejectStep]_vars

\* each queue is full and has rejected a job
C15_Witness ==
  /\ Len(queue) = MAX_USER_QUEUE_SIZE
  /\ Len(queue_admin) = MAX_ADMIN_QUEUE_SIZE
  /\ metrics.queue_rejections_user >= 1
  /\ metrics.queue_rejections_admin >= 1
  /\ output = FALSE

\* C16: the leaderboard is the board's records in the order of (-score, time),
\* cut to the first LEADERBOARD_TOP: a higher score comes first, equal scores
\* are ordered by the lower time, no record left out beats one that is listed,
\* and (A,10,50), (B,10,40), (C,8,20) rank as B, A, C.
Beats(a, b) == a.score > b.score \/ (a.score = b.score /\ a.time < b.time)

Listed(r, s) == \E i \in 1..Len(s) : s[i] = r

ExampleBoard ==
  << [name |-> "A", score |-> 10, time |-> 50],
     [name |-> "B", score |-> 10, time |-> 40],
     [name |-> "C", score |-> 8, time |-> 20] >>

C16_Leaderboard ==
  output.done =>
    LET ranked == output.ranked IN
    /\ Len(ranked) = IF Len(input) <= LEADERBOARD_TOP THEN Len(input) ELSE LEADERBOARD_TOP
    /\ \A i \in 1..Len(ranked) : Listed(ranked[i], input)
    /\ \A i, j \in 1..Len(ranked) : i < j =>
          /\ ranked[i].name # ranked[j].name
          /\ ~Beats(ranked[j], ranked[i])
    /\ \A i \in 1..Len(input), j \in 1..Len(ranked) :
          ~Listed(input[i], ranked) => ~Beats(input[i], ranked[j])
    /\ input = ExampleBoard => [i \in 1..3 |-> ranked[i].name] = <<"B", "A", "C">>

\* the example board has been ranked
C16_Witness == input = ExampleBoard /\ output.done /\ output.ranked[1].name = "B"

\* C17: before the cutoff hour the resolved date is the latest available date
\* strictly before today; from the cutoff hour on it is today when today is
\* available, else the latest available date not after today; without such a
\* date there is none (0).  With yesterday and today available, 09:00 gives
\* yesterday and 18:00 gives today.
Latest(S) == IF S = {} THEN 0 ELSE CHOOSE d \in S : \A e \in S : e <= d

C17_Resolution ==
  output.done =>
    LET today == input.today
        available == input.available
    IN  /\ input.hour < QUIZ_SWITCH_HOUR =>
              output.date = Latest({d \in available : d < today})
        /\ input.hour >= QUIZ_SWITCH_HOUR /\ today \in available => output.date = today
        /\ input.hour >= QUIZ_SWITCH_HOUR /\ today \notin available =>
              output.date = Latest({d \in available : d <= today})
        /\ available = {today - 1, today} /\ input.hour = 9 => output.date = today - 1
        /\ available = {today - 1, today} /\ input.hour = 18 => output.date = today

\* with yesterday and today available, a morning resolution gave yesterday
C17_Witness ==
  /\ output.done
  /\ input.hour = 9
  /\ input.today = 2
  /\ input.available = {1, 2}
  /\ output.date = 1

\* C18: a user has at most one record per date-key; a session that completes
\* for a date-key of which its user has no record yet leaves the user's record
\* for that date-key, written by that session, and one that completes when the
\* record is there leaves it as it was.
HasRecord(D, u, k) == D[u].present /\ D[u].quiz_date_key = k

C18_CompletionStep ==
  \A u \in Users :
    sessions[u] # 0 /\ sessions'[u] = 0 =>
      LET k == heap[sessions[u]].quiz_date_key IN
        IF HasRecord(daily_scores, u, k)
          THEN daily_scores'[u] = daily_scores[u]
          ELSE HasRecord(daily_scores', u, k) /\ daily_scores'[u].sid = sessions[u]

C18_FirstCompletionRecorded == [][C18_CompletionStep]_vars

\* C19: once a date-key is resolved every record on the scoreboard carries it,
\* and no step removes or changes a record of the date-key that is current
\* after the step: a resolution clears the records of another key only, and
\* keeps those of the key it resolves, the ones loaded from disk included.
C19_RecordsOfCurrentKey ==
  \A u \in Users :
    current_quiz_date_key # 0 /\ daily_scores[u].present =>
      daily_scores[u].quiz_date_key = current_quiz_date_key

C19_RetainStep ==
  \A u \in Users :
    HasRecord(daily_scores, u, current_quiz_date_key') =>
      daily_scores'[u] = daily_scores[u]

C19_ScoreboardFollowsKey == []C19_RecordsOfCurrentKey /\ [][C19_RetainStep]_vars

\* C20: a row is dropped exactly when its date does not parse; a retained
\* question has a time limit of at least 1, marks of at least 0 and a negative
\* ratio from 0 to 1; a time that is a whole number of at least 1, marks of at
\* least 0 and a ratio from 0 to 1 are kept as written; and the question is
\* flagged invalid exactly when its correct-option text, blanks around it and
\* case aside, is not one letter from A to D.
Retained == output.done /\ output.rows # <<>>

Blanks(n) == [i \in 1..n |-> " "]

OneLetterAToD(cell) ==
  /\ cell.given
  /\ \E c \in {"A", "B", "C", "D", "a", "b", "c", "d"}, i, j \in 0..2 :
        cell.text = Blanks(i) \o <<c>> \o Blanks(j)

Written(cell) == cell.given /\ Float(cell.text).ok /\ ~Float(cell.text).nan

C20_Dropped ==
  output.done =>
    (output.rows = <<>> <=>
       ~(input.date.given /\ input.date.text \in {"01-01-2026", " 02-01-2026 "}))

C20_Ranges ==
  Retained =>
    LET q == output.rows[1] IN
      /\ q.time_limit >= 1
      /\ ~q.marks.nan /\ q.marks.v >= 0
      /\ ~q.neg_ratio.nan /\ q.neg_ratio.v >= 0 /\ q.neg_ratio.v <= Twelfths

C20_Preserved ==
  Retained =>
    LET q == output.rows[1] IN
      /\ Written(input.time) =>
           LET v == Float(input.time.text).v IN
             v >= Twelfths /\ v % Twelfths = 0 => q.time_limit * Twelfths = v
      /\ Written(input.marks) =>
           LET v == Float(input.marks.text).v IN
             v >= 0 => q.marks = Number(v)
      /\ Written(input.negative_ratio) =>
           LET v == Float(input.negative_ratio.text).v IN
             v >= 0 /\ v <= Twelfths => q.neg_ratio = Number(v)

C20_Flagged ==
  Retained => (output.rows[1].invalid_reason <=> ~OneLetterAToD(input.correct_option))

C20_NormalizedRows == C20_Dropped /\ C20_Ranges /\ C20_Preserved /\ C20_Flagged

\* C21: a task that is inside `async with s["lock"]` never waits there for an
\* outbound call, a sleep or the same lock: whenever a session lock has a
\* holder, the holder is a task that has just been handed the lock and has not
\* run yet.
LockEntries == {"ha_body", "hs_body", "tq_body", "sq_fb_body"}

AwaitsInLock(t) ==
  /\ th[t].pc \notin LockEntries \cup {"idle"}
  /\ \E sid \in Sids : locks[sid].holder = t

C21_LockOnlyAcrossMutation == \A t \in Tids : ~AwaitsInLock(t)

\* C22: transitioned, index and the four counters of a session are assigned
\* only inside `async with s["lock"]`.
C22_WritesUnderLock == \A sid \in Sids : heap[sid].bare = {}

\* C23: a timeout timer is pending for the current question of a session only
\* when the poll of that question has been delivered: its send job is neither
\* waiting in the queue nor in the hands of the worker.
Undelivered(mid) ==
  \/ \E i \in 1..Len(queue) : queue[i].mid = mid
  \/ worker.pc = "sending" /\ worker.mid = mid

C23_TimerOnlyAfterDelivery ==
  \A h \in timers :
    LET sid == sessions[h.uid] IN
      sid # 0 /\ heap[sid].timeout_token = h.tok => ~Undelivered(PollId(sid, h.qi))

\* C24 as stated: a poll is put on the queue only by a task whose own send
\* attempt has failed before.
C24_DirectSendFirstStep ==
  Len(queue') > Len(queue) => \E t \in Tids : th[t].pc = "sq_fallback"

C24_DirectSendFirst == [][C24_DirectSendFirstStep]_vars

\* C24: send_question tries the queue first, without any send attempt before
\* it, and only when the queue is full does it turn to send_with_retries: a
\* poll is enqueued by a task entering send_question while the queue has room,
\* and the synchronous send begins only with the queue at capacity and
\* leaves the queue alone.
EntersSendQuestion(t) == th[t].pc \in {"send_question", "sleep"}

C24_EnqueueFirstStep ==
  /\ Len(queue') > Len(queue) =>
        /\ Len(queue) < MAX_USER_QUEUE_SIZE
        /\ \E t \in Tids : EntersSendQuestion(t) /\ th'[t].pc = "idle"
  /\ \A t \in Tids :
        th[t].pc # "sq_fallback" /\ th'[t].pc = "sq_fallback" =>
          /\ EntersSendQuestion(t)
          /\ Len(queue) >= MAX_USER_QUEUE_SIZE
          /\ queue' = queue

C24_EnqueueFirst == [][C24_EnqueueFirstStep]_vars

\* the queue is full and a task waits for its synchronous send
C24_Witness ==
  \E t \in Tids : th[t].pc = "sq_fallback" /\ Len(queue) >= MAX_USER_QUEUE_SIZE

\* C25: an answer that belongs to the poll of an already resolved question
\* changes neither the index nor any counter.  When the poll of the current
\* question is still on its way to the user while an earlier poll of the
\* session has reached them, an answer that arrives can only belong to an
\* earlier, resolved question.
OnlyStaleAnswers(u) ==
  /\ sessions[u] # 0
  /\ LET sid == sessions[u]
         s == heap[sid]
     IN  /\ s.index < NQ
         /\ s.poll_message_id >= PollId(sid, 0)
         /\ s.poll_message_id < PollId(sid, s.index)
         /\ Undelivered(PollId(sid, s.index))

C25_StaleAnswerStep ==
  \A u \in Users :
    OnlyStaleAnswers(u) /\ AnswerArrives(u) =>
      Counters(heap'[sessions[u]]) = Counters(heap[sessions[u]])

C25_StaleAnswerAbsorbed == [][C25_StaleAnswerStep]_vars

\* C26: a question is invalid when it is flagged, has fewer than two non-blank
\* options, or has a correct option that does not parse or names a blank
\* option.  An invalid question never has a send job, a recorded poll or a
\* timer, and the run of send_question that has announced it adds one to
\* skipped_invalid, appends one explanation, leaves the other counters and the
\* marks alone and moves the index on by one.
QuestionShapes ==
  [inv : BOOLEAN, correct : {NoOpt, 0, 1, 2, 3}, opts : [1..4 -> BOOLEAN],
   tl : {1}, marks : {2}, neg : {1}]

InvalidAsStated(q) ==
  \/ q.inv
  \/ Cardinality({i \in 1..4 : q.opts[i]}) < 2
  \/ q.correct = NoOpt
  \/ q.correct # NoOpt /\ ~q.opts[q.correct + 1]

InvalidIndexes == {qi \in 0..(NQ - 1) : IsInvalid(Questions[qi + 1])}

C26_NeverSent ==
  /\ \A q \in QuestionShapes : IsInvalid(q) <=> InvalidAsStated(q)
  /\ \A h \in timers : h.qi \notin InvalidIndexes
  /\ \A sid \in Sids, qi \in InvalidIndexes :
        /\ ~Undelivered(PollId(sid, qi))
        /\ heap[sid].poll_message_id # PollId(sid, qi)
        /\ \A t \in Tids : ~(th[t].pc = "sq_fallback" /\ th[t].s = sid /\ th[t].qi = qi)

C26_AutoSkipStep ==
  \A t \in Tids :
    th[t].pc = "sq_invalid" /\ th'[t].pc # "sq_invalid" =>
      LET s == heap[th[t].s]
          s2 == heap'[th[t].s]
      IN  /\ s2.skipped_invalid = s.skipped_invalid + 1
          /\ Len(s2.explanations) = Len(s.explanations) + 1
          /\ s2.attempted = s.attempted
          /\ s2.wrong = s.wrong
          /\ s2.marks = s.marks
          /\ s2.skipped_user = s.skipped_user
          /\ s2.skipped_timeout = s.skipped_timeout
          /\ s2.index = s.index + 1

C26_InvalidAutoSkipped == []C26_NeverSent /\ [][C26_AutoSkipStep]_vars

\* C26, for a session that is still the user's session when the notice
\* returns: the sweep has not removed it while the notice was being sent.
\* In a removed session the auto-skip is still counted and explained, and
\* the index stays.
C26_CountedStep ==
  \A t \in Tids :
    th[t].pc = "sq_invalid" /\ th'[t].pc # "sq_invalid" =>
      LET s == heap[th[t].s]
          s2 == heap'[th[t].s]
      IN  /\ s2.skipped_invalid = s.skipped_invalid + 1
          /\ Len(s2.explanations) = Len(s.explanations) + 1
          /\ s2.attempted = s.attempted
          /\ s2.wrong = s.wrong
          /\ s2.marks = s.marks
          /\ s2.skipped_user = s.skipped_user
          /\ s2.skipped_timeout = s.skipped_timeout
          /\ s2.index = IF sessions[th[t].uid] = th[t].s THEN s.index + 1 ELSE s.index

C26_StoredInvalidAutoSkipped == []C26_NeverSent /\ [][C26_CountedStep]_vars

\* the invalid second question has been auto-skipped
C26_Witness ==
  \E sid \in Sids :
    /\ heap[sid].skipped_invalid = 1
    /\ heap[sid].index = 2
    /\ heap[sid].last_action.kind = "auto_skip_invalid"

\* C27: an answer that arrives for a session whose question is already
\* transitioned changes nothing in the session and cancels no timer; when the
\* late notice it may send has returned, only last_late_msg_ts is different.
ButLateNotice(s) == [s EXCEPT !.last_late_msg_ts = 0]

C27_StrayStep ==
  /\ \A u \in Users :
        sessions[u] # 0 /\ heap[sessions[u]].transitioned /\ AnswerArrives(u) =>
          /\ heap'[sessions[u]] = heap[sessions[u]]
          /\ timers' = timers
          /\ sessions' = sessions
  /\ \A t \in Tids :
        th[t].pc = "ha_stray_notice" /\ th'[t].pc # "ha_stray_notice" =>
          /\ ButLateNotice(heap'[th[t].hs]) = ButLateNotice(heap[th[t].hs])
          /\ timers' = timers
          /\ sessions' = sessions

C27_StrayAnswerFrame == [][C27_StrayStep]_vars

\* after a skip, a stray answer has been told that it came too late
C27_Witness ==
  \E sid \in Sids :
    /\ heap[sid].transitioned
    /\ heap[sid].last_action.kind = "skip"
    /\ heap[sid].skipped_timeout = 0
    /\ heap[sid].last_late_msg_ts = now
    /\ th[Disp].pc = "idle"

\* C28: a timer callback that carries the session's current token and runs
\* inside the lock before the deadline of a question still open changes no
\* counter and no index, keeps the token, and leaves a handle with that token
\* pending for the deadline; skipped_timeout only grows at or after the
\* deadline of the question.  (A callback that finds the lock free puts back
\* the very handle it was run from, so that run leaves the state as it was;
\* the run that changes the state is the one of a callback that had to wait
\* for the lock.)
EarlyFor(sid, tok) ==
  /\ sid # 0
  /\ ~heap[sid].transitioned
  /\ heap[sid].timeout_token = tok
  /\ now < heap[sid].q_deadline

KeptForDeadline(sid, tok, uid) ==
  /\ Counters(heap'[sid]) = Counters(heap[sid])
  /\ heap'[sid].timeout_token = tok
  /\ heap'[sid].timeout_handle = tok
  /\ heap'[sid].q_deadline = heap[sid].q_deadline
  /\ \E h \in timers' : h.tok = tok /\ h.uid = uid /\ h.at = heap[sid].q_deadline

C28_EarlyStep ==
  /\ \A h \in timers :
        (/\ sessions[h.uid] # 0
         /\ LockFree(locks, sessions[h.uid])
         /\ EarlyFor(sessions[h.uid], h.tok)
         /\ TimerFired(h))
        => KeptForDeadline(sessions[h.uid], h.tok, h.uid)
  /\ \A t \in Toks :
        EarlyFor(th[t].hs, t) /\ TimerGranted(t) => KeptForDeadline(th[t].hs, t, th[t].uid)
  /\ \A sid \in Sids :
        heap'[sid].skipped_timeout > heap[sid].skipped_timeout =>
          heap[sid].q_deadline # NoTime /\ now >= heap[sid].q_deadline

C29_RaisedStep ==
  /\ call.pc # "idle" /\ call.error # "TelegramError" /\ call'.error = "TelegramError" =>
        /\ call.pc = "attempting"
        /\ call'.pc = "raised"
        /\ call'.attempt = call.attempt
        /\ call'.backoff = call.backoff
        /\ call'.wake = call.wake
  /\ call.pc = "raised" => call' = call

C29_Propagated == call.pc # "idle" /\ call.error = "TelegramError" => call.pc = "raised"

C29_ErrorPropagates == []C29_Propagated /\ [][C29_RaisedStep]_vars

\* the second attempt of a call with two retries left met the error, after a
\* backoff, and the call raised
C29_Witness ==
  /\ call.pc = "raised"
  /\ call.error = "TelegramError"
  /\ call.max_retries = 2
  /\ call.attempt = 2

\* C30: at most MAX_CONCURRENT_SENDS callers are inside the gate, the permits
\* out are exactly those of the callers inside, and a caller that waits for
\* its retry, waits for a permit or has left send_with_retries holds none.
InGate(c) == call.of[c].pc \in {"in_gate", "sending"}

C30_GateBound ==
  /\ Cardinality({c \in Callers : InGate(c)}) <= MAX_CONCURRENT_SENDS
  /\ Cardinality({c \in Callers : call.of[c].permit}) = MAX_CONCURRENT_SENDS - call.gate.value
  /\ call.gate.value >= 0
  /\ \A c \in Callers : call.of[c].permit <=> InGate(c)

\* the gate is full while another caller sleeps before its retry
C30_Witness ==
  /\ Cardinality({c \in Callers : InGate(c)}) = MAX_CONCURRENT_SENDS
  /\ \E c \in Callers : call.of[c].pc = "backoff" /\ ~call.of[c].permit

\* C31: whenever the worker takes a job from the user queue, the admin queue
\* is empty at that moment.
C31_TakesFromUserQueue == worker.pc \in {"idle", "waiting"} /\ worker'.pc = "sending" /\ queue' # queue

Queued(c) == \E i \in 1..Len(queue) : queue[i].uid = c

Attempted(c) == worker.pc = "sending" /\ worker.uid = c

C32_FailStep ==
  LoopSendFails =>
    /\ worker'.pc = "idle"
    /\ queue' = queue /\ queue_admin' = queue_admin
    /\ sessions' = sessions /\ heap' = heap /\ locks' = locks /\ timers' = timers

Expired(u) ==
  /\ sessions[u] # 0
  /\ ~heap[sessions[u]].in_question
  /\ now - heap[sessions[u]].last_activity > SESSION_TTL

C33_SweepStep ==
  CleanupSweep =>
    \A u \in Users :
      /\ sessions'[u] # sessions[u] => Expired(u)
      /\ Expired(u) =>
            /\ sessions'[u] = 0
            /\ \A h \in timers' : h.tok # heap[sessions[u]].timeout_handle
      /\ sessions[u] # 0 /\ heap[sessions[u]].in_question => sessions'[u] = sessions[u]

\* (a session that start_quiz puts in its place is not idle: Expired(u) ends
\* only by the removal or by new activity)
C33_IdleRemoved == \A u \in Users : Expired(u) ~> ~Expired(u)

C33_CleanupSweep == [][C33_SweepStep]_vars /\ C33_IdleRemoved

\* the sweep has taken the session of user 1 in the middle of the quiz: the
\* dict is still there, idle past the TTL, and no score was recorded
C33_Witness ==
  /\ sessions[1] = 0
  /\ ~daily_scores[1].present
  /\ \E sid \in Sids :
        /\ heap[sid] # BlankSession
        /\ heap[sid].index < NQ
        /\ ~heap[sid].in_question
        /\ now - heap[sid].last_activity > SESSION_TTL
        /\ \A h \in timers : h.tok # heap[sid].timeout_handle

\* C34: the integrity check changes no session, and it reports a live session
\* exactly when attempted + skipped_user + skipped_timeout + skipped_invalid
\* is above the number of questions: a session with a smaller sum is not
\* reported.
Reported(u) == \E w \in output.warnings : w.uid = u

C34_ReportsOnlyExcess ==
  output.done =>
    \A u \in Users :
      sessions[u] # 0 =>
        (Reported(u) <=>
           heap[sessions[u]].attempted + SkippedSum(heap[sessions[u]]) > NQ)

C34_IntegritySweep ==
  /\ [][sessions' = sessions /\ heap' = heap]_vars
  /\ []C34_ReportsOnlyExcess

\* C35: a session that start_quiz stored over another one never holds, as its
\* poll_message_id, the id of a poll of the session it replaced: the delivery
\* result of a job the replaced session queued is not written into it.
SidOf(mid) == (mid - 1) \div (NQ + 1)

C35_ReplacedSessionInert ==
  \A sid \in Sids :
    heap[sid].replaced # 0 /\ heap[sid].poll_message_id # 0 =>
      SidOf(heap[sid].poll_message_id) # heap[sid].replaced

====
